---- MODULE Spec2Model ----
(***************************************************************************)
(* A model of the NvFuser IR container (Fusion) and of the ir_utils        *)
(* algorithms (value substitution and replacement, definition transfer,    *)
(* domain comparison, cycle detection).                                    *)
(*                                                                         *)
(* The container is one record, `fusion`, whose fields carry the names of  *)
(* the C++ members.  Every C++ method is an operator from a container      *)
(* record (and the call's arguments) to the container record the call      *)
(* leaves behind; the field `err` is set when the call throws.  A method   *)
(* that calls another method is the composition of their operators.        *)
(***************************************************************************)
EXTENDS Integers, Sequences, FiniteSets, TLC

VARIABLES
  fusion,   \* the Fusion container
  last,     \* the last call made on the container: name, arguments, whether
            \* it returned normally, and the container before the call
  steps,    \* number of calls made so far
  cc,       \* checkCycle: the call's arguments and locals
  cd,       \* compareDomains: the call's arguments and locals
  ids,      \* the IterDomains of the container: their iteration kinds and
            \* the transform expressions registered between them
  guards,   \* FusionGuard: the thread's active container and the guards
            \* that are alive
  rd        \* isRecursivelyDefined: the call's argument and locals

vars == <<fusion, last, steps, cc, cd, ids, guards, rd>>

\* the null Val* and the null Expr*
NULL == "nullptr"
NullExpr == [type |-> "nullptr"]

----------------------------------------------------------------------------
(* Sequences (std::vector) *)

Range(s) == {s[i] : i \in DOMAIN s}

InSeq(x, s) == \E i \in DOMAIN s : s[i] = x

\* std::find + vector::erase: drops the first occurrence of x, if any
EraseFirst(s, x) ==
  IF ~InSeq(x, s) THEN s
  ELSE LET k == CHOOSE i \in DOMAIN s : s[i] = x /\ \A j \in 1..(i-1) : s[j] # x
       IN  [i \in 1..(Len(s)-1) |-> IF i < k THEN s[i] ELSE s[i+1]]

\* std::replace_if(begin, end, [](v){ return v == old; }, new)
ReplaceIf(s, old, new) == [i \in DOMAIN s |-> IF s[i] = old THEN new ELSE s[i]]

\* unordered_map: erase(k) and operator[](k) = x
MapErase(m, k) == [x \in DOMAIN m \ {k} |-> m[x]]
MapPut(m, k, x) == [y \in DOMAIN m \cup {k} |-> IF y = k THEN x ELSE m[y]]
EmptyMap == [x \in {} |-> NULL]

\* Body applied to the value of v, which is computed once
With(v, Body(_)) == CHOOSE r \in {Body(x) : x \in {v}} : TRUE

----------------------------------------------------------------------------
(* The values and expressions of the container's universe.                 *)

\* Values: two Float tensors, one Half tensor, a PipelineVal wrapping a
\* tensor, and a non-constant scalar (all Float but tv2).
\* tvc is not created at construction: it is the tensor a castOp creates.
\* tv3 is a further Float tensor, created by the caller of a replacement,
\* and c0 a constant Float scalar, created by the caller of a rewrite.
\* n1, n2, n3 (Float) and h1 (Half) are the values IrBuilder::create<Val>
\* makes while a rewrite runs.
FreshVals == <<"n1", "n2", "n3", "h1">>
Vals == {"tv0", "tv1", "tv2", "pv0", "s0", "tvc", "tv3", "c0", "n1", "n2", "n3", "h1"}
Created == {"tv0", "tv1", "tv2", "pv0", "s0"}

vtype(v) ==
  CASE v \in {"tv0", "tv1", "tv2", "tvc", "tv3"} -> "TensorView"
    [] v = "pv0" -> "PipelineVal"
    [] OTHER -> "Others"

dtype(v) == IF v \in {"tv2", "h1"} THEN "Half" ELSE "Float"

isConst(v) == v = "c0"

\* An expression: its kind, its ordered inputs and its ordered outputs.
E(ty, i, o) == [type |-> ty, ins |-> i, outs |-> o]

\* The expressions callers build and register.  e_add and e_init both write
\* tv1 (the expression proper and an initialization, as lowering produces
\* them); e_dead consumes tv1; e_two has two outputs; e_scalar computes a
\* scalar from a constant.
e_add  == E("BinaryOp", <<"tv0", "s0">>, <<"tv1">>)
e_init == E("LoadStoreOp", <<"s0">>, <<"tv1">>)
e_dead == E("UnaryOp", <<"tv1">>, <<"tv2">>)
e_two  == E("WelfordOp", <<"tv1">>, <<"tv0", "tv2">>)
e_scalar == E("UnaryOp", <<"c0">>, <<"s0">>)

\* An expression with attributes: a Val (s0) and a statement that is not a
\* Val.
e_attr == [type |-> "PadOp", ins |-> <<"tv1", "tv2">>, outs |-> <<"tv3">>,
           attrs |-> <<"s0", "mode">>]

\* Expr::attributes()
attributes(e) == IF "attrs" \in DOMAIN e THEN e.attrs ELSE <<>>

\* Expr::newObjectFunc(): an expression of the same kind
newObject(def, ins, outs, attrs) ==
  IF attrs = <<>> THEN E(def.type, ins, outs)
  ELSE [type |-> def.type, ins |-> ins, outs |-> outs, attrs |-> attrs]
Exprs == {e_add, e_init, e_dead, e_two, e_scalar}

AliasTypes == {"InplaceUpdate", "PointerArithmetic"}

----------------------------------------------------------------------------
(* Val and IrContainer members used by Fusion *)

\* A Statement* is a Val* or an Expr*.
ValStmt(v) == [isVal |-> TRUE, val |-> v, expr |-> NullExpr]
ExprStmt(e) == [isVal |-> FALSE, val |-> NULL, expr |-> e]

\* Val::definition(): a registered fusion input reports no definition
definition(s, v) == IF s.is_fusion_input_[v] THEN NullExpr ELSE s.definition_[v]

\* IrContainer::inContainer, for a value and for an expression
inContainer(s, v) == v \in s.vals_
inContainerExpr(s, e) == e \in s.exprs_

invalidateTvUses(s) == [s EXCEPT !.all_tv_uses_valid_ = FALSE]

\* Val::addUse: appended unless already present
addUse(s, v, e) ==
  IF InSeq(e, s.uses_[v]) THEN s
  ELSE [s EXCEPT !.uses_[v] = Append(@, e)]

\* Val::removeUse: erased if present; a tensor then invalidates the cache
removeUse(s, v, e) ==
  IF ~InSeq(e, s.uses_[v]) THEN s
  ELSE LET t == [s EXCEPT !.uses_[v] = EraseFirst(@, e)]
       IN  IF vtype(v) = "TensorView" THEN invalidateTvUses(t) ELSE t

throw(s) == [s EXCEPT !.err = TRUE]

\* The container right after construction and the creation of its values.
NewFusion(ssa) ==
  [ is_ssa |-> ssa,
    vals_ |-> Created,
    exprs_ |-> {},
    definition_ |-> [v \in Vals |-> NullExpr],
    uses_ |-> [v \in Vals |-> <<>>],
    inputs_ |-> <<>>,
    outputs_ |-> <<>>,
    is_fusion_input_ |-> [v \in Vals |-> FALSE],
    is_fusion_output_ |-> [v \in Vals |-> FALSE],
    memory_type_ |-> [v \in Vals |-> "Local"],
    io_alias_ |-> EmptyMap,
    all_tv_uses_valid_ |-> FALSE,
    err |-> FALSE ]

----------------------------------------------------------------------------
(* Fusion::removeExpr *)

RECURSIVE clearDefinitions(_, _, _)
clearDefinitions(s, outs, i) ==
  IF i > Len(outs) THEN s
  ELSE clearDefinitions([s EXCEPT !.definition_[outs[i]] = NullExpr], outs, i + 1)

RECURSIVE removeUses(_, _, _)
removeUses(s, e, i) ==
  IF i > Len(e.ins) THEN s
  ELSE removeUses(removeUse(s, e.ins[i], e), e, i + 1)

\* Variant of removeExpr: the definitions of the outputs are not cleared
removeExpr_keepDefinitions(s, e) ==
  IF e \notin s.exprs_ THEN throw(s)
  ELSE [removeUses(s, e, 1) EXCEPT !.exprs_ = @ \ {e}]

removeExpr(s, e) ==
  IF e \notin s.exprs_ THEN throw(s)
  ELSE LET t == removeUses(clearDefinitions(s, e.outs, 1), e, 1)
       IN  [t EXCEPT !.exprs_ = @ \ {e}]

----------------------------------------------------------------------------
(* Fusion::removeVal *)

\* the loop over exprs_to_remove; the order of an unordered_set does not
\* matter here, removeExpr(a) and removeExpr(b) commute
RECURSIVE removeExprs(_, _)
removeExprs(s, es) ==
  IF es = {} \/ s.err THEN s
  ELSE LET e == CHOOSE x \in es : TRUE
       IN  removeExprs(removeExpr(s, e), es \ {e})

removeVal(s, v) ==
  IF v \notin s.vals_ THEN throw(s)
  ELSE IF s.is_fusion_input_[v] THEN throw(s)
  ELSE IF s.is_fusion_output_[v] THEN throw(s)
  ELSE LET orig == definition(s, v)
           t == IF orig # NullExpr THEN removeExpr(s, orig) ELSE s
           exprs_to_remove == {e \in t.exprs_ : InSeq(v, e.ins)}
           u == removeExprs(t, exprs_to_remove)
       IN  IF u.err THEN u ELSE [u EXCEPT !.vals_ = @ \ {v}]

----------------------------------------------------------------------------
(* Fusion::addInput, addOutput, removeInput, removeOutput *)

\* Variant of addInput: the "already registered as input" check is dropped
addInput_noDuplicateCheck(s, input) ==
  IF input \notin s.vals_ THEN throw(s)
  ELSE LET t == IF vtype(input) = "TensorView"
                THEN [s EXCEPT !.memory_type_[input] = "Global"] ELSE s
       IN  IF vtype(input) = "Others" /\ isConst(input) THEN throw(t)
           ELSE [t EXCEPT !.inputs_ = Append(@, input),
                          !.is_fusion_input_[input] = TRUE,
                          !.all_tv_uses_valid_ = FALSE]

addInput(s, input) ==
  IF input \notin s.vals_ THEN throw(s)
  ELSE LET t == IF vtype(input) = "TensorView"
                THEN [s EXCEPT !.memory_type_[input] = "Global"] ELSE s
       IN  IF vtype(input) = "Others" /\ isConst(input) THEN throw(t)
           ELSE IF t.is_fusion_input_[input] THEN throw(t)
           ELSE [t EXCEPT !.inputs_ = Append(@, input),
                          !.is_fusion_input_[input] = TRUE,
                          !.all_tv_uses_valid_ = FALSE]

addOutput(s, output) ==
  IF output \notin s.vals_ THEN throw(s)
  ELSE IF vtype(output) \notin {"TensorView", "PipelineVal"} THEN throw(s)
  ELSE LET t == IF vtype(output) = "TensorView"
                THEN [s EXCEPT !.memory_type_[output] = "Global"] ELSE s
       IN  [t EXCEPT !.outputs_ = Append(@, output),
                     !.is_fusion_output_[output] = TRUE,
                     !.all_tv_uses_valid_ = FALSE]

\* Variant of removeInput: the is-fusion-input flag is left as it is
removeInput_keepFlag(s, input) ==
  [s EXCEPT !.inputs_ = EraseFirst(@, input),
            !.all_tv_uses_valid_ = FALSE]

removeInput(s, input) ==
  [s EXCEPT !.inputs_ = EraseFirst(@, input),
            !.is_fusion_input_[input] = FALSE,
            !.all_tv_uses_valid_ = FALSE]

\* Variant of removeOutput: a value that is not in the list is an error
removeOutput_strict(s, output) ==
  IF ~InSeq(output, s.outputs_) THEN throw(s)
  ELSE [s EXCEPT !.outputs_ = EraseFirst(@, output),
                 !.is_fusion_output_[output] = FALSE,
                 !.all_tv_uses_valid_ = FALSE]

removeOutput(s, output) ==
  [s EXCEPT !.outputs_ = EraseFirst(@, output),
            !.is_fusion_output_[output] = FALSE,
            !.all_tv_uses_valid_ = FALSE]

----------------------------------------------------------------------------
(* Fusion::replaceOutput *)

\* Variants of replaceOutput with one statement changed:
\* only the position std::find returned is overwritten
replaceOutput_first(s, output, replacement) ==
  IF ~InSeq(output, s.outputs_) THEN throw(s)
  ELSE
    LET k == CHOOSE i \in DOMAIN s.outputs_ :
               s.outputs_[i] = output /\ \A j \in 1..(i-1) : s.outputs_[j] # output
        s1 == [s EXCEPT !.outputs_[k] = replacement]
        s2 == IF vtype(replacement) = "TensorView"
              THEN [s1 EXCEPT !.is_fusion_output_[replacement] = TRUE,
                              !.memory_type_[replacement] = "Global"]
              ELSE s1
        s3 == IF vtype(output) = "TensorView"
              THEN [s2 EXCEPT !.is_fusion_output_[output] = FALSE,
                              !.memory_type_[output] = "Local"]
              ELSE s2
        s4 == invalidateTvUses(s3)
    IN  IF output \in DOMAIN s4.io_alias_
        THEN LET input == s4.io_alias_[output]
             IN  [s4 EXCEPT !.io_alias_ = MapPut(MapErase(@, output), replacement, input)]
        ELSE s4

\* the alias entry is copied to the replacement but not erased from the old key
replaceOutput_keepAlias(s, output, replacement) ==
  IF ~InSeq(output, s.outputs_) THEN throw(s)
  ELSE
    LET s1 == [s EXCEPT !.outputs_ = ReplaceIf(@, output, replacement)]
        s2 == IF vtype(replacement) = "TensorView"
              THEN [s1 EXCEPT !.is_fusion_output_[replacement] = TRUE,
                              !.memory_type_[replacement] = "Global"]
              ELSE s1
        s3 == IF vtype(output) = "TensorView"
              THEN [s2 EXCEPT !.is_fusion_output_[output] = FALSE,
                              !.memory_type_[output] = "Local"]
              ELSE s2
        s4 == invalidateTvUses(s3)
    IN  IF output \in DOMAIN s4.io_alias_
        THEN [s4 EXCEPT !.io_alias_ = MapPut(@, replacement, s4.io_alias_[output])]
        ELSE s4

\* the NVF_CHECK is dropped: a missing output is treated like a present one
replaceOutput_noCheck(s, output, replacement) ==
  LET s1 == [s EXCEPT !.outputs_ = ReplaceIf(@, output, replacement)]
      s2 == IF vtype(replacement) = "TensorView"
            THEN [s1 EXCEPT !.is_fusion_output_[replacement] = TRUE,
                            !.memory_type_[replacement] = "Global"]
            ELSE s1
      s3 == IF vtype(output) = "TensorView"
            THEN [s2 EXCEPT !.is_fusion_output_[output] = FALSE,
                            !.memory_type_[output] = "Local"]
            ELSE s2
      s4 == invalidateTvUses(s3)
  IN  IF output \in DOMAIN s4.io_alias_
      THEN LET input == s4.io_alias_[output]
           IN  [s4 EXCEPT !.io_alias_ = MapPut(MapErase(@, output), replacement, input)]
      ELSE s4

replaceOutput(s, output, replacement) ==
  IF ~InSeq(output, s.outputs_) THEN throw(s)
  ELSE
    LET s1 == [s EXCEPT !.outputs_ = ReplaceIf(@, output, replacement)]
        s2 == IF vtype(replacement) = "TensorView"
              THEN [s1 EXCEPT !.is_fusion_output_[replacement] = TRUE,
                              !.memory_type_[replacement] = "Global"]
              ELSE s1
        s3 == IF vtype(output) = "TensorView"
              THEN [s2 EXCEPT !.is_fusion_output_[output] = FALSE,
                              !.memory_type_[output] = "Local"]
              ELSE s2
        s4 == invalidateTvUses(s3)
    IN  IF output \in DOMAIN s4.io_alias_
        THEN LET input == s4.io_alias_[output]
             IN  [s4 EXCEPT !.io_alias_ = MapPut(MapErase(@, output), replacement, input)]
        ELSE s4

----------------------------------------------------------------------------
(* Fusion::getOutputAlias, isAliasCompatible, aliasOutputToInput *)

AliasInfo(ty, io, hide) == [type |-> ty, aliased_io |-> io, hide_output |-> hide]

no_alias_info == AliasInfo("NoAlias", NULL, FALSE)

getOutputAlias(s, output) ==
  IF output \in DOMAIN s.io_alias_ THEN s.io_alias_[output] ELSE no_alias_info

\* Variant of isAliasCompatible: the ValType check is dropped
isAliasCompatible_noValType(left, right) ==
  /\ left # NULL /\ right # NULL
  /\ dtype(left) = dtype(right)

isAliasCompatible(left, right) ==
  /\ left # NULL /\ right # NULL
  /\ dtype(left) = dtype(right)
  /\ vtype(left) = vtype(right)

----------------------------------------------------------------------------
(* Fusion::registerVal, Fusion::registerExpr *)

registerVal(s, v) ==
  IF inContainer(s, v) THEN s ELSE [s EXCEPT !.vals_ = @ \cup {v}]

\* Variant of registerInputs: the expression is added to the use list of a
\* tensor as well
RECURSIVE registerInputs_addUseToAll(_, _, _)
registerInputs_addUseToAll(s, e, i) ==
  IF i > Len(e.ins) THEN s
  ELSE LET input == e.ins[i]
       IN  IF input \notin s.vals_ THEN throw(s)
           ELSE registerInputs_addUseToAll(
                  IF vtype(input) = "TensorView"
                  THEN invalidateTvUses(addUse(s, input, e))
                  ELSE addUse(s, input, e),
                  e, i + 1)

\* the loop over expr->inputs()
RECURSIVE registerInputs(_, _, _)
registerInputs(s, e, i) ==
  IF i > Len(e.ins) THEN s
  ELSE LET input == e.ins[i]
       IN  IF input \notin s.vals_ THEN throw(s)
           ELSE registerInputs(
                  IF vtype(input) = "TensorView" THEN invalidateTvUses(s)
                  ELSE addUse(s, input, e),
                  e, i + 1)

\* Variant of registerOutputs: the definition pointer is set in both
\* flavors, whether or not the output already has a definition
RECURSIVE registerOutputs_alwaysSet(_, _, _)
registerOutputs_alwaysSet(s, e, i) ==
  IF i > Len(e.outs) THEN s
  ELSE LET output == e.outs[i]
       IN  IF output \notin s.vals_ THEN throw(s)
           ELSE
             LET s1 == IF definition(s, output) # NullExpr /\ s.is_ssa
                       THEN removeExpr(s, definition(s, output)) ELSE s
                 d == [s1 EXCEPT !.definition_[output] = e]
                 s2 == IF vtype(output) = "TensorView" THEN invalidateTvUses(d) ELSE d
             IN  IF s1.err THEN s1 ELSE registerOutputs_alwaysSet(s2, e, i + 1)

\* Variant of registerOutputs: the existing definition is never removed
RECURSIVE registerOutputs_noRemove(_, _, _)
registerOutputs_noRemove(s, e, i) ==
  IF i > Len(e.outs) THEN s
  ELSE LET output == e.outs[i]
       IN  IF output \notin s.vals_ THEN throw(s)
           ELSE
             LET s2 == IF s.is_ssa \/ (~s.is_ssa /\ definition(s, output) = NullExpr)
                       THEN LET d == [s EXCEPT !.definition_[output] = e]
                            IN  IF vtype(output) = "TensorView"
                                THEN invalidateTvUses(d) ELSE d
                       ELSE s
             IN  registerOutputs_noRemove(s2, e, i + 1)

\* Variant of registerOutputs: every container is treated as the kernel
\* flavor (is_ssa false)
RECURSIVE registerOutputs_asKernel(_, _, _)
registerOutputs_asKernel(s, e, i) ==
  IF i > Len(e.outs) THEN s
  ELSE LET output == e.outs[i]
       IN  IF output \notin s.vals_ THEN throw(s)
           ELSE
             LET s2 == IF definition(s, output) = NullExpr
                       THEN LET d == [s EXCEPT !.definition_[output] = e]
                            IN  IF vtype(output) = "TensorView"
                                THEN invalidateTvUses(d) ELSE d
                       ELSE s
             IN  registerOutputs_asKernel(s2, e, i + 1)

\* the loop over expr->outputs()
RECURSIVE registerOutputs(_, _, _)
registerOutputs(s, e, i) ==
  IF i > Len(e.outs) THEN s
  ELSE LET output == e.outs[i]
       IN  IF output \notin s.vals_ THEN throw(s)
           ELSE
             LET s1 == IF definition(s, output) # NullExpr /\ s.is_ssa
                       THEN removeExpr(s, definition(s, output)) ELSE s
                 s2 == IF s1.is_ssa \/ (~s1.is_ssa /\ definition(s1, output) = NullExpr)
                       THEN LET d == [s1 EXCEPT !.definition_[output] = e]
                            IN  IF vtype(output) = "TensorView"
                                THEN invalidateTvUses(d) ELSE d
                       ELSE s1
             IN  IF s1.err THEN s1 ELSE registerOutputs(s2, e, i + 1)

registerExpr(s, e) ==
  IF inContainerExpr(s, e) THEN s
  ELSE LET s1 == [s EXCEPT !.exprs_ = @ \cup {e}]
           s2 == registerInputs(s1, e, 1)
       IN  IF s2.err THEN s2 ELSE registerOutputs(s2, e, 1)

---------------------------------------------------------------------------------------------------------------------------------------------------
(* StmtSort (IterVisitor) and Fusion::getTerminatingOutputs, resetTvUses *)

\* IterVisitor::traverseBetween: the statements the values vs depend on, a
\* depth-first walk along definition() and the inputs of each definition,
\* in order; every statement once, after the statements it depends on.
\* `cycle` is set when the walk meets an expression that is on its own path
\* (IterVisitor throws there).
RECURSIVE visitVals(_, _, _, _)
visitVals(s, vs, i, acc) ==
  IF i > Len(vs) \/ acc.cycle THEN acc
  ELSE IF ValStmt(vs[i]) \in acc.done THEN visitVals(s, vs, i + 1, acc)
  ELSE
    LET v == vs[i]
        d == definition(s, v)
        \* the value itself, after its definition
        visited(a) == IF a.cycle THEN a
                      ELSE [a EXCEPT !.order = Append(@, ValStmt(v)),
                                     !.done = @ \cup {ValStmt(v)}]
        \* the definition, after the values it reads
        defined(sub) == IF sub.cycle THEN sub
                        ELSE [sub EXCEPT !.order = Append(@, ExprStmt(d)),
                                         !.done = @ \cup {ExprStmt(d)},
                                         !.path = @ \ {d}]
        a1 == IF d = NullExpr \/ ExprStmt(d) \in acc.done THEN visited(acc)
              ELSE IF d \in acc.path THEN [acc EXCEPT !.cycle = TRUE]
              ELSE With(visitVals(s, d.ins, 1, [acc EXCEPT !.path = @ \cup {d}]),
                        LAMBDA sub : visited(defined(sub)))
    IN  With(a1, LAMBDA a : visitVals(s, vs, i + 1, a))

\* StmtSort::getStmtsTo
getStmtsTo(s, to) ==
  visitVals(s, to, 1, [order |-> <<>>, done |-> {}, path |-> {}, cycle |-> FALSE])

ExprsOf(stmts) ==
  LET F[i \in 0..Len(stmts)] ==
        IF i = 0 THEN <<>>
        ELSE IF stmts[i].isVal THEN F[i-1] ELSE Append(F[i-1], stmts[i].expr)
  IN  F[Len(stmts)]

\* StmtSort::getExprsTo
getExprsTo(s, to) ==
  With(getStmtsTo(s, to),
       LAMBDA stmts : [order |-> ExprsOf(stmts.order), cycle |-> stmts.cycle])

\* the outputs of the expressions in v's use list
consumersOf(s, v) ==
  LET F[i \in 0..Len(s.uses_[v])] ==
        IF i = 0 THEN <<>> ELSE F[i-1] \o s.uses_[v][i].outs
  IN  F[Len(s.uses_[v])]

\* is_reachable_to_output: the loop over the deque `consumers`
RECURSIVE reachesOutput(_, _, _)
reachesOutput(s, consumers, visited) ==
  IF consumers = <<>> THEN FALSE
  ELSE LET consumer == consumers[Len(consumers)]
           rest == SubSeq(consumers, 1, Len(consumers) - 1)
       IN  IF s.is_fusion_output_[consumer] THEN TRUE
           ELSE IF consumer \in visited THEN reachesOutput(s, rest, visited)
           ELSE reachesOutput(s, rest \o consumersOf(s, consumer), visited \cup {consumer})

is_reachable_to_output(s, val) == reachesOutput(s, consumersOf(s, val), {})

\* Fusion::getTerminatingOutputs, on the use lists as they are
getTerminatingOutputs(s) ==
  SelectSeq(s.outputs_, LAMBDA out : ~is_reachable_to_output(s, out))

\* "Same as in register expr": input->addUse(expr) for every input of
\* every used expression
RECURSIVE addUses(_, _, _)
addUses(s, e, i) ==
  IF i > Len(e.ins) THEN s
  ELSE With(addUse(s, e.ins[i], e), LAMBDA t : addUses(t, e, i + 1))

RECURSIVE addUsesOfAll(_, _, _)
addUsesOfAll(s, es, k) ==
  IF k > Len(es) THEN s
  ELSE With(addUses(s, es[k], 1), LAMBDA t : addUsesOfAll(t, es, k + 1))

\* Fusion::resetTvUses.  While it runs (is_during_update_uses_) uses()
\* returns the lists as they are, so StmtSort::getExprs starts from the
\* terminating outputs of the stale lists.
resetTvUses(s) ==
  LET cleared == [s EXCEPT !.uses_ =
                    [v \in Vals |-> IF v \in s.vals_ /\ vtype(v) = "TensorView"
                                     THEN <<>> ELSE s.uses_[v]]]
  IN  With(getExprsTo(s, getTerminatingOutputs(s)),
           LAMBDA used_exprs :
             IF used_exprs.cycle THEN throw(s)
             ELSE [addUsesOfAll(cleared, used_exprs.order, 1)
                     EXCEPT !.all_tv_uses_valid_ = TRUE])

\* Val::uses() of a tensor recomputes the use lists first when they are
\* not valid.  getTerminatingOutputs asks for the uses of every output and
\* of the consumers it walks through.
asksTensorUses(s) ==
  \E out \in Range(s.outputs_) :
    \/ vtype(out) = "TensorView"
    \/ \E c \in Range(consumersOf(s, out)) :
         vtype(c) = "TensorView" /\ ~s.is_fusion_output_[c]

\* StmtSort::getExprs(fusion): the container the call leaves behind (use
\* lists recomputed, or err set) and the expressions
getExprs(s) ==
  With(IF asksTensorUses(s) /\ ~s.all_tv_uses_valid_ THEN resetTvUses(s) ELSE s,
       LAMBDA s1 :
         With(getExprsTo(s1, getTerminatingOutputs(s1)),
              LAMBDA found : [s |-> IF found.cycle THEN throw(s1) ELSE s1,
                              exprs |-> found.order]))

-----
(* Fusion::aliasOutputToInput *)

\* castOp(dtype, v): a new tensor of that data type defined by a cast of v.
\* The one tensor the model can create is tvc.
castResult == "tvc"
CanCast(s, dt) == castResult \notin s.vals_ /\ dtype(castResult) = dt
castOp(s, v) == registerExpr(registerVal(s, castResult), E("Cast", <<v>>, <<castResult>>))

aliasOutputToInput(s, output0, input0, type) ==
  IF type = "NoAlias" THEN throw(s)
  ELSE
    LET inplace == type = "InplaceUpdate"
        \* `input` can be a cast of a fusion input
        unwrap == inplace /\ ~s.is_fusion_input_[input0]
        input_expr == definition(s, input0)
        bad_input == unwrap /\ (input_expr = NullExpr \/ input_expr.type # "Cast")
        input == IF unwrap /\ ~bad_input THEN input_expr.ins[1] ELSE input0
        cast == inplace /\ ~bad_input /\ dtype(input) # dtype(output0)
        s1 == IF cast THEN castOp(s, output0) ELSE s
        output == IF cast THEN castResult ELSE output0
    IN  IF bad_input THEN throw(s)
        ELSE IF s1.err THEN s1
        ELSE IF ~isAliasCompatible(input, output) THEN throw(s1)
        ELSE
          LET s2 == [s1 EXCEPT !.io_alias_ =
                       MapPut(@, output,
                              AliasInfo(type, input, ~s1.is_fusion_output_[output]))]
          IN  IF ~s2.is_fusion_output_[output] THEN addOutput(s2, output) ELSE s2

----------------------------------------------------------------------------
(* The container under a caller: one action per method.  A call that       *)
(* throws leaves the container as the method left it when it threw.        *)

\* number of calls in one run
MaxOps == 3

NoCall(s) == [op |-> "none", args |-> <<>>, ok |-> TRUE, pre |-> s, ret |-> NULL]

Call(op, args, res) ==
  /\ steps < MaxOps
  /\ \E r \in {res} :
       /\ fusion' = [r EXCEPT !.err = FALSE]
       /\ last' = [op |-> op, args |-> args, ok |-> ~r.err, pre |-> fusion, ret |-> NULL]
  /\ steps' = steps + 1
  /\ UNCHANGED <<cc, cd, ids, guards, rd>>

\* a call of a function that returns a value: out.s is the container it
\* leaves behind and out.ret the value returned
CallRet(op, args, out) ==
  /\ steps < MaxOps
  /\ \E r \in {out} :
       /\ fusion' = [r.s EXCEPT !.err = FALSE]
       /\ last' = [op |-> op, args |-> args, ok |-> ~r.s.err, pre |-> fusion,
                   ret |-> r.ret]
  /\ steps' = steps + 1
  /\ UNCHANGED <<cc, cd, ids, guards, rd>>

Idle == [pc |-> "idle"]

\* FusionGuard::active_fusion_ is null and no guard is alive.  `scopes` are
\* the live guards, innermost last; `entered` records, for each of them,
\* the container that was current when it was constructed and whether
\* setCurFusion was called in its scope.
NoGuards ==
  [ active_fusion_ |-> NULL, scopes |-> <<>>, entered |-> <<>>,
    op |-> "none", released |-> NULL, released_set |-> FALSE, outer |-> NULL ]

\* a container without IterDomains
NoIds == [iter_type |-> EmptyMap, exprs |-> {}]

InitFusion ==
  /\ \E ssa \in BOOLEAN : fusion = NewFusion(ssa)
  /\ last = NoCall(fusion)
  /\ steps = 0
  /\ cc = Idle
  /\ cd = Idle
  /\ rd = Idle
  /\ guards = NoGuards
  /\ ids = NoIds

\* Callers pass pointers to live objects.
Live == fusion.vals_

AddInput == \E v \in Live : Call("addInput", <<v>>, addInput(fusion, v))

AddOutput == \E v \in Live : Call("addOutput", <<v>>, addOutput(fusion, v))

RemoveInput == \E v \in Live : Call("removeInput", <<v>>, removeInput(fusion, v))

RemoveOutput == \E v \in Live : Call("removeOutput", <<v>>, removeOutput(fusion, v))

ReplaceOutput ==
  \E o \in Live, n \in Live :
    Call("replaceOutput", <<o, n>>, replaceOutput(fusion, o, n))

AliasOutputToInput ==
  \E o \in Live, i \in Live, ty \in AliasTypes :
    /\ (ty = "InplaceUpdate" /\ dtype(i) # dtype(o)) => CanCast(fusion, dtype(i))
    /\ Call("aliasOutputToInput", <<o, i, ty>>, aliasOutputToInput(fusion, o, i, ty))

RegisterExpr ==
  \E e \in Exprs :
    /\ Range(e.ins) \cup Range(e.outs) \subseteq Live
    /\ Call("registerExpr", <<e>>, registerExpr(fusion, e))

RemoveExpr == \E e \in fusion.exprs_ : Call("removeExpr", <<e>>, removeExpr(fusion, e))

RemoveVal == \E v \in Live : Call("removeVal", <<v>>, removeVal(fusion, v))

ResetTvUses == Call("resetTvUses", <<>>, resetTvUses(fusion))

\* Declaring, replacing and aliasing inputs and outputs.
NextIO ==
  \/ AddInput
  \/ AddOutput
  \/ RemoveInput
  \/ RemoveOutput
  \/ ReplaceOutput
  \/ AliasOutputToInput
  \/ ResetTvUses

SpecIO == InitFusion /\ [][NextIO]_vars

\* Building and pruning the graph.
NextGraph ==
  \/ RegisterExpr
  \/ RemoveExpr
  \/ RemoveVal
  \/ AddInput
  \/ RemoveInput
  \/ AddOutput
  \/ RemoveOutput

SpecGraph == InitFusion /\ [][NextGraph]_vars

----------------------------------------------------------------------------
(* Claims about replaceOutput (checked under SpecIO) *)

ReplacedOutput == last.op = "replaceOutput" /\ last.ok
OldOut == last.args[1]
NewOut == last.args[2]

\* every position of `before` that held o now holds n, the others are as before
RewrittenInPlace(before, after, o, n) ==
  /\ Len(after) = Len(before)
  /\ \A i \in DOMAIN before : after[i] = IF before[i] = o THEN n ELSE before[i]

\* C2 as stated: after a successful replaceOutput(o, n) the output list
\* contains n and not o, n stands at every position o occupied and every
\* other entry keeps its position.
C2_AsStated ==
  ReplacedOutput =>
    /\ InSeq(NewOut, fusion.outputs_)
    /\ ~InSeq(OldOut, fusion.outputs_)
    /\ RewrittenInPlace(last.pre.outputs_, fusion.outputs_, OldOut, NewOut)

\* C2 amended: after a successful replaceOutput(o, n) the output list
\* contains n and, when n is a value other than o, does not contain o; n
\* stands at every position o occupied and every other entry keeps its
\* position (the length is unchanged).
C2_ReplaceOutputRewritesList ==
  ReplacedOutput =>
    /\ InSeq(NewOut, fusion.outputs_)
    /\ (NewOut # OldOut => ~InSeq(OldOut, fusion.outputs_))
    /\ RewrittenInPlace(last.pre.outputs_, fusion.outputs_, OldOut, NewOut)

\* a replacement by another value in a list where o stood twice, beside a
\* third entry
C2_Witness ==
  /\ ReplacedOutput
  /\ NewOut # OldOut
  /\ Cardinality({i \in DOMAIN last.pre.outputs_ : last.pre.outputs_[i] = OldOut}) = 2

\* C3 as stated: an alias entry of o is returned by getOutputAlias(n) after
\* replaceOutput(o, n) and getOutputAlias(o) reports no alias; without an
\* entry for o the alias map is unchanged.
C3_AsStated ==
  ReplacedOutput =>
    IF OldOut \in DOMAIN last.pre.io_alias_
    THEN /\ getOutputAlias(fusion, NewOut) = last.pre.io_alias_[OldOut]
         /\ getOutputAlias(fusion, OldOut) = no_alias_info
    ELSE fusion.io_alias_ = last.pre.io_alias_

\* C3 amended: an alias entry of o is returned unchanged by
\* getOutputAlias(n) after replaceOutput(o, n) and, when n is a value other
\* than o, getOutputAlias(o) reports no alias; without an entry for o the
\* alias map is unchanged.
C3_ReplaceOutputMigratesAlias ==
  ReplacedOutput =>
    IF OldOut \in DOMAIN last.pre.io_alias_
    THEN /\ getOutputAlias(fusion, NewOut) = last.pre.io_alias_[OldOut]
         /\ (NewOut # OldOut => getOutputAlias(fusion, OldOut) = no_alias_info)
    ELSE fusion.io_alias_ = last.pre.io_alias_

\* an aliased output replaced by another value
C3_Witness ==
  /\ ReplacedOutput
  /\ NewOut # OldOut
  /\ OldOut \in DOMAIN last.pre.io_alias_
  /\ getOutputAlias(fusion, NewOut).type # "NoAlias"

\* C4 (for a replacement other than the output itself): after a successful
\* replaceOutput(old, new) new carries the is-fusion-output flag and old's
\* flag is cleared, whatever the kinds of the two values.
C4_OutputRoleMigrates ==
  (ReplacedOutput /\ NewOut # OldOut) =>
    /\ fusion.is_fusion_output_[NewOut]
    /\ ~fusion.is_fusion_output_[OldOut]

\* C5: replaceOutput(old, new) with old not in the output list fails and
\* leaves the output list, every is-output flag, the alias map and the
\* use-lists-valid flag as they were.
C5_ReplaceMissingOutputFails ==
  (last.op = "replaceOutput" /\ ~InSeq(OldOut, last.pre.outputs_)) =>
    /\ ~last.ok
    /\ fusion.outputs_ = last.pre.outputs_
    /\ fusion.is_fusion_output_ = last.pre.is_fusion_output_
    /\ fusion.io_alias_ = last.pre.io_alias_
    /\ fusion.all_tv_uses_valid_ = last.pre.all_tv_uses_valid_

\* a failed replaceOutput in a container that has an aliased output and
\* valid use lists
C5_Witness ==
  /\ last.op = "replaceOutput"
  /\ ~last.ok
  /\ last.pre.outputs_ # <<>>
  /\ DOMAIN last.pre.io_alias_ # {}
  /\ last.pre.all_tv_uses_valid_

----------------------------------------------------------------------------
(* Claims about removeVal (checked under SpecGraph) *)

\* C1: after removeVal(v) succeeds, no expression still registered in the
\* container has v among its inputs or among its outputs.
C1_NoExprReferencesRemovedVal ==
  (last.op = "removeVal" /\ last.ok) =>
    \A e \in fusion.exprs_ :
      ~InSeq(last.args[1], e.ins) /\ ~InSeq(last.args[1], e.outs)

----------------------------------------------------------------------------
(* ir_utils::checkCycle *)

\* next(stmt): the definition of a value, the inputs of an expression
next(s, stmt) ==
  IF stmt.isVal
  THEN IF definition(s, stmt.val) # NullExpr
       THEN <<ExprStmt(definition(s, stmt.val))>>
       ELSE <<>>
  ELSE [i \in DOMAIN stmt.expr.ins |-> ValStmt(stmt.expr.ins[i])]

\* the locals of checkCycle at the top of its while loop.  `ret` is the
\* returned vector, kept as the set of its elements (it is filled from an
\* unordered_set); `opened` lists the statements in the order they were put
\* on the path.
checkCycleEntry(from, to) ==
  [ pc |-> "loop", from |-> from, to |-> to,
    path |-> {}, visited |-> {},
    queue |-> [i \in DOMAIN to |-> ValStmt(to[i])],
    ret |-> {}, opened |-> <<>> ]

\* boundary or previously visited node: pop
popFront(c) == [c EXCEPT !.queue = Tail(@)]

\* leaf node: pop and mark visited
visitLeaf(c) == [c EXCEPT !.queue = Tail(@), !.visited = @ \cup {Head(c.queue)}]

\* val is already in path: cleaning up the stack
leavePath(c) ==
  [c EXCEPT !.queue = Tail(@),
            !.path = @ \ {Head(c.queue)},
            !.visited = @ \cup {Head(c.queue)}]

\* the variant of pushNext that does not look for the statement on the path
RECURSIVE pushNext_noCheck(_, _, _)
pushNext_noCheck(c, next_stmts, i) ==
  IF i > Len(next_stmts) THEN c
  ELSE pushNext_noCheck([c EXCEPT !.queue = <<next_stmts[i]>> \o @], next_stmts, i + 1)

\* the for loop over next_stmts: return the path at the first statement
\* that is on it, push the others to the front of the queue
RECURSIVE pushNext(_, _, _)
pushNext(c, next_stmts, i) ==
  IF i > Len(next_stmts) THEN c
  ELSE IF next_stmts[i] \in c.path
       THEN [c EXCEPT !.pc = "done", !.ret = c.path]
       ELSE pushNext([c EXCEPT !.queue = <<next_stmts[i]>> \o @], next_stmts, i + 1)

\* the variant of enterPath that opens the statement once for each of its
\* next statements instead of once
enterPath_openPerNext(s, c) ==
  pushNext([c EXCEPT !.path = @ \cup {Head(c.queue)},
                     !.opened = @ \o [i \in DOMAIN next(s, Head(c.queue)) |-> Head(c.queue)]],
           next(s, Head(c.queue)), 1)

\* putting self on path, then the for loop
enterPath(s, c) ==
  pushNext([c EXCEPT !.path = @ \cup {Head(c.queue)},
                     !.opened = Append(@, Head(c.queue))],
           next(s, Head(c.queue)), 1)

----------------------------------------------------------------------------
(* checkCycle over the definition graphs of three tensors *)

\* longest input list of an expression, longest target list, largest
\* boundary set
MaxIns == 2
MaxTo == 2
MaxFrom == 1

SeqsUpTo(S, n) == UNION {[1..k -> S] : k \in 0..n}

CycleVals == {"tv0", "tv1", "tv2"}

OpOfArity(ins) ==
  CASE Len(ins) = 0 -> "FullOp"
    [] Len(ins) = 1 -> "UnaryOp"
    [] Len(ins) = 2 -> "BinaryOp"
    [] OTHER -> "TernaryOp"

\* what a tensor can be defined by: nothing, or one expression over the
\* tensors (itself included, and the same tensor more than once)
DefChoices(v) ==
  {NullExpr} \cup {E(OpOfArity(ins), ins, <<v>>) : ins \in SeqsUpTo(CycleVals, MaxIns)}

RECURSIVE registerAll(_, _, _)
registerAll(s, es, i) ==
  IF i > Len(es) THEN s
  ELSE registerAll(IF es[i] = NullExpr THEN s ELSE registerExpr(s, es[i]), es, i + 1)

RECURSIVE addInputs(_, _, _)
addInputs(s, ins, i) ==
  IF i > Len(ins) THEN s ELSE addInputs(addInput(s, ins[i]), ins, i + 1)

RECURSIVE addOutputs(_, _, _)
addOutputs(s, outs, i) ==
  IF i > Len(outs) THEN s ELSE addOutputs(addOutput(s, outs[i]), outs, i + 1)

Statements(s) ==
  {ValStmt(v) : v \in CycleVals} \cup {ExprStmt(e) : e \in s.exprs_}

\* A single-assignment container in which the chosen definitions were
\* registered and the chosen tensors declared outputs.
InitCC ==
  /\ \E d0 \in DefChoices("tv0"), d1 \in DefChoices("tv1"), d2 \in DefChoices("tv2"),
        outs \in SeqsUpTo(CycleVals, MaxTo) :
       fusion = addOutputs(registerAll(NewFusion(TRUE), <<d0, d1, d2>>, 1), outs, 1)
  /\ last = NoCall(fusion)
  /\ steps = 0
  /\ cc = Idle
  /\ cd = Idle
  /\ rd = Idle
  /\ guards = NoGuards
  /\ ids = NoIds

\* checkCycle(fusion, from, to).  The targets passed are the tensors that
\* were declared outputs: checkCycle does not read the output list, and the
\* declared outputs range over every target list.
CheckCycle ==
  /\ cc.pc = "idle"
  /\ \E from \in SUBSET Statements(fusion) :
       /\ Cardinality(from) <= MaxFrom
       /\ cc' = checkCycleEntry(from, fusion.outputs_)
  /\ UNCHANGED <<fusion, last, steps, cd, ids, guards, rd>>

\* checkCycle(fusion): no boundary, the targets are the fusion outputs
CheckCycleFusion ==
  /\ cc.pc = "idle"
  /\ cc' = checkCycleEntry({}, fusion.outputs_)
  /\ UNCHANGED <<fusion, last, steps, cd, ids, guards, rd>>

InLoop == cc.pc = "loop" /\ cc.queue # <<>>
AtBoundary == Head(cc.queue) \in cc.from \/ Head(cc.queue) \in cc.visited
AtLeaf == next(fusion, Head(cc.queue)) = <<>>
OnPath == Head(cc.queue) \in cc.path

CC_PopFront ==
  /\ InLoop /\ AtBoundary
  /\ cc' = popFront(cc)
  /\ UNCHANGED <<fusion, last, steps, cd, ids, guards, rd>>

CC_VisitLeaf ==
  /\ InLoop /\ ~AtBoundary /\ AtLeaf
  /\ cc' = visitLeaf(cc)
  /\ UNCHANGED <<fusion, last, steps, cd, ids, guards, rd>>

CC_LeavePath ==
  /\ InLoop /\ ~AtBoundary /\ ~AtLeaf /\ OnPath
  /\ cc' = leavePath(cc)
  /\ UNCHANGED <<fusion, last, steps, cd, ids, guards, rd>>

CC_EnterPath ==
  /\ InLoop /\ ~AtBoundary /\ ~AtLeaf /\ ~OnPath
  /\ cc' = enterPath(fusion, cc)
  /\ UNCHANGED <<fusion, last, steps, cd, ids, guards, rd>>

\* no cycle detected, return empty
CC_ReturnEmpty ==
  /\ cc.pc = "loop" /\ cc.queue = <<>>
  /\ cc' = [cc EXCEPT !.pc = "done", !.ret = {}]
  /\ UNCHANGED <<fusion, last, steps, cd, ids, guards, rd>>

NextCC ==
  \/ CheckCycle
  \/ CheckCycleFusion
  \/ CC_PopFront
  \/ CC_VisitLeaf
  \/ CC_LeavePath
  \/ CC_EnterPath
  \/ CC_ReturnEmpty

SpecCC == InitCC /\ [][NextCC]_vars

\* the loop is never starved
SpecCCLive == SpecCC /\ WF_vars(NextCC)

----------------------------------------------------------------------------
(* Claims about checkCycle (checked under SpecCC and SpecCCLive) *)

\* The statements reachable from the statements S along next(), never
\* entering a statement of the boundary.
RECURSIVE ReachableFrom(_, _, _)
ReachableFrom(s, boundary, S) ==
  LET inside == S \ boundary
      more == (UNION {Range(next(s, x)) : x \in inside}) \ boundary
  IN  IF more \subseteq inside THEN inside
      ELSE ReachableFrom(s, boundary, inside \cup more)

\* x depends on itself without passing through the boundary
OnCycle(s, boundary, x) ==
  x \in ReachableFrom(s, boundary, Range(next(s, x)))

CycleReachable(s, boundary, to) ==
  \E x \in ReachableFrom(s, boundary, {ValStmt(to[i]) : i \in DOMAIN to}) :
    OnCycle(s, boundary, x)

Acyclic(s) == \A x \in Statements(s) : ~OnCycle(s, {}, x)

Returned == cc.pc = "done"

\* C8: checkCycle(fusion, from, to) returns a non-empty list exactly when a
\* dependency cycle is reachable from a value of `to` along value ->
\* definition -> input edges without passing through a statement of
\* `from`; on an acyclic graph it returns the empty list.
C8_CycleReportedIffReachable ==
  Returned =>
    /\ (cc.ret # {}) <=> CycleReachable(fusion, cc.from, cc.to)
    /\ Acyclic(fusion) => cc.ret = {}

\* a cycle through two tensors is reported although another cycle of the
\* graph is cut off by the boundary
C8_Witness ==
  /\ Returned
  /\ cc.ret # {}
  /\ cc.from # {}
  /\ Cardinality({x \in cc.ret : x.isVal}) >= 2
  /\ \E x \in Statements(fusion) : OnCycle(fusion, {}, x) /\ ~OnCycle(fusion, cc.from, x)

NoDuplicates(q) == \A i, j \in DOMAIN q : q[i] = q[j] => i = j

\* C9: checkCycle returns on every graph, boundary and target list, and
\* puts each statement on the path at most once.
C9_CheckCycleTerminates ==
  /\ <>Returned
  /\ [](cc.pc # "idle" => NoDuplicates(cc.opened))

\* a run that returned after walking, from a target listed twice, an
\* expression that reads the same tensor twice, a tensor read by several
\* expressions, and a cycle
C9_Witness ==
  /\ Returned
  /\ ~NoDuplicates(cc.to)
  /\ \E e \in fusion.exprs_ : ExprStmt(e) \in cc.visited /\ ~NoDuplicates(e.ins)
  /\ \E v \in CycleVals :
       /\ ValStmt(v) \in cc.visited
       /\ Cardinality({e \in fusion.exprs_ : InSeq(v, e.ins)}) >= 2
  /\ ~Acyclic(fusion)

----------------------------------------------------------------------------
(* IterDomains, their transforms, and IRBFS *)

IterDomains == {"i0", "i1", "i2", "i3"}
IterTypes == {"Iteration", "Broadcast", "Symbolic"}

\* i0 is split into (i1, i2); i1 and i2 are merged into i3
split == E("Split", <<"i0">>, <<"i1", "i2">>)
merge == E("Merge", <<"i1", "i2">>, <<"i3">>)
Transforms == <<split, merge>>

getIterType(g, id) == g.iter_type[id]
isBroadcast(g, id) == getIterType(g, id) = "Broadcast"

\* IRBFS::isReady of an expression: forward when all its inputs were
\* visited, else backward when all its outputs were
readyDirection(e, visited) ==
  IF e.ins # <<>> /\ Range(e.ins) \subseteq visited THEN "Forward"
  ELSE IF e.outs # <<>> /\ Range(e.outs) \subseteq visited THEN "Backward"
  ELSE "Undefined"

\* the axes an expression leaves and the axes it reaches in a direction
fromSide(e, direction) == IF direction = "Forward" THEN e.ins ELSE e.outs
toSide(e, direction) == IF direction = "Forward" THEN e.outs ELSE e.ins

\* IRBFS::traverse: starting from the axes `visited`, visit every
\* expression that is ready, and with it the axes on its other side, until
\* all of `to` is visited or nothing is ready.  b.visited are the axes
\* visited, b.order the expressions in visiting order with their direction.
RECURSIVE traverse(_, _, _)
traverse(g, to, b) ==
  LET seen == {b.order[i].expr : i \in DOMAIN b.order}
      ready == {k \in DOMAIN Transforms :
                  /\ Transforms[k] \in g.exprs \ seen
                  /\ readyDirection(Transforms[k], b.visited) # "Undefined"}
  IN  IF to \subseteq b.visited \/ ready = {} THEN b
      ELSE LET k == CHOOSE n \in ready : \A m \in ready : n <= m
               e == Transforms[k]
               direction == readyDirection(e, b.visited)
           IN  traverse(g, to,
                 [visited |-> b.visited \cup Range(toSide(e, direction)),
                  order |-> Append(b.order, [expr |-> e, direction |-> direction,
                                             reached |-> Range(toSide(e, direction)) \ b.visited])])

\* the visited expressions that the axes `want` were reached through
RECURSIVE exprsLeadingTo(_, _, _)
exprsLeadingTo(order, want, acc) ==
  LET hit == {i \in DOMAIN order : i \notin acc /\ order[i].reached \cap want # {}}
  IN  IF hit = {} THEN acc
      ELSE exprsLeadingTo(order,
             want \cup UNION {Range(fromSide(order[i].expr, order[i].direction)) : i \in hit},
             acc \cup hit)

SubSeqAt(s, keep) ==
  LET F[i \in 0..Len(s)] ==
        IF i = 0 THEN <<>>
        ELSE IF i \in keep THEN Append(F[i-1], s[i]) ELSE F[i-1]
  IN  F[Len(s)]

\* IRBFS::getExprsBetween(from, to, require_all_to_visited = false): the
\* expressions, each with its direction, that lead from `from` to the axes
\* of `to` that can be reached
getExprsBetween(g, from, to) ==
  LET b == traverse(g, Range(to), [visited |-> Range(from), order |-> <<>>])
      keep == exprsLeadingTo(b.order, Range(to), {})
  IN  [i \in DOMAIN SubSeqAt(b.order, keep) |->
         [expr |-> SubSeqAt(b.order, keep)[i].expr,
          direction |-> SubSeqAt(b.order, keep)[i].direction]]

\* IRBFS::getReachableValsFrom(from, vals): the axes of vals visited by a
\* traversal from `from`
getReachableValsFrom(g, from, vals) ==
  vals \cap traverse(g, vals, [visited |-> from, order |-> <<>>]).visited

----------------------------------------------------------------------------
(* ir_utils::compareDomains *)

CompareDomainResult(u0, u1) ==
  [dom0_has_unreachable_ids |-> u0, dom1_has_unreachable_ids |-> u1]

cdError(c) == [c EXCEPT !.pc = "error"]

\* the function up to the loop over the expressions
compareDomainsEntry(g, dom0, dom1, additional_ids, ignore_broadcast) ==
  LET c == [ pc |-> "loop",
             dom0 |-> dom0, dom1 |-> dom1, additional_ids |-> additional_ids,
             ignore_broadcast |-> ignore_broadcast,
             dom1_set |-> Range(dom1),
             additional_ids_set |-> Range(additional_ids),
             exprs |-> <<>>, i |-> 1, frontier |-> {},
             result |-> CompareDomainResult(FALSE, FALSE) ]
  IN  IF dom0 = <<>> /\ dom1 = <<>> THEN [c EXCEPT !.pc = "done"]
      ELSE IF Len(dom0) # Cardinality(Range(dom0)) THEN cdError(c)
      ELSE IF Len(dom1) # Cardinality(Range(dom1)) THEN cdError(c)
      ELSE [c EXCEPT !.exprs = getExprsBetween(g, dom0 \o additional_ids, dom1),
                     !.frontier = Range(dom0 \o additional_ids)]

\* the variant of insertTo that does not look at the result of the insertion
insertTo_noCheck(c, to, k) ==
  [c EXCEPT !.frontier = @ \cup (Range(to) \ c.additional_ids_set)]

\* for (auto v : to): insert into the frontier, an axis already there is an
\* error
RECURSIVE insertTo(_, _, _)
insertTo(c, to, k) ==
  IF k > Len(to) THEN c
  ELSE IF to[k] \in c.additional_ids_set THEN insertTo(c, to, k + 1)
  ELSE IF to[k] \in c.frontier THEN cdError(c)
  ELSE insertTo([c EXCEPT !.frontier = @ \cup {to[k]}], to, k + 1)

\* the variant of eraseFrom that leaves the axes in the frontier
eraseFrom_keep(g, c, from, k) == c

\* for (auto v : from): erase from the frontier, an axis not there is an
\* error unless it is ignorable
RECURSIVE eraseFrom(_, _, _, _)
eraseFrom(g, c, from, k) ==
  IF k > Len(from) THEN c
  ELSE LET v == from[k]
           ignorable == (c.ignore_broadcast /\ isBroadcast(g, v))
                          \/ v \in c.additional_ids_set
       IN  IF v \in c.frontier \/ ignorable
           THEN eraseFrom(g, [c EXCEPT !.frontier = @ \ {v}], from, k + 1)
           ELSE cdError(c)

\* one iteration of the loop over exprs
traverseExpr(g, c) ==
  LET expr == c.exprs[c.i].expr
      direction == c.exprs[c.i].direction
      from == fromSide(expr, direction)
      to == toSide(expr, direction)
      n == [c EXCEPT !.i = @ + 1]
  IN  IF \A k \in DOMAIN from : from[k] \in c.additional_ids_set
      THEN [n EXCEPT !.additional_ids_set = @ \cup Range(to)]
      ELSE LET c1 == insertTo(n, to, 1)
           IN  IF c1.pc = "error" THEN c1 ELSE eraseFrom(g, c1, from, 1)

is_symb(g, v) == getIterType(g, v) = "Symbolic"

\* symbolic axes in both the frontier and dom1_set are removed from both
dropSymbolic(g, c) ==
  LET ids_to_remove == {id \in c.frontier : is_symb(g, id) /\ id \in c.dom1_set}
  IN  [c EXCEPT !.pc = "check",
                !.frontier = @ \ ids_to_remove,
                !.dom1_set = @ \ ids_to_remove]

\* the variant of check_ids that does not skip symbolic and broadcast axes
check_ids_noSkip(g, ignore_broadcast, ids_to_check, target_set) ==
  [ unreachable |-> ids_to_check \ target_set # {},
    redundant |-> getReachableValsFrom(g, target_set, ids_to_check \ target_set) # {} ]

\* check_ids: some axis to check, neither symbolic nor an ignored
\* broadcast, is not in the target set; it is an error (redundant) when
\* such an axis can be reached from the target set
check_ids(g, ignore_broadcast, ids_to_check, target_set) ==
  LET missing == {id \in ids_to_check :
                    /\ getIterType(g, id) # "Symbolic"
                    /\ ~(ignore_broadcast /\ isBroadcast(g, id))
                    /\ id \notin target_set}
  IN  [ unreachable |-> missing # {},
        redundant |-> \E id \in missing : getReachableValsFrom(g, target_set, {id}) # {} ]

\* the variant of checkDomains that runs both checks whatever is symbolic
checkDomains_noSkip(g, c) ==
  LET r1 == check_ids(g, c.ignore_broadcast, Range(c.dom1), c.frontier)
      r0 == check_ids(g, c.ignore_broadcast, c.frontier, c.dom1_set)
  IN  IF r1.redundant \/ r0.redundant THEN cdError(c)
      ELSE [c EXCEPT !.pc = "done",
                     !.result = CompareDomainResult(r0.unreachable, r1.unreachable)]

\* from frontier_has_symbolic to the return
checkDomains(g, c) ==
  LET frontier_has_symbolic == \E v \in c.frontier : is_symb(g, v)
      dom1_has_symbolic == \E v \in c.dom1_set : is_symb(g, v)
      r1 == check_ids(g, c.ignore_broadcast, Range(c.dom1), c.frontier)
      r0 == check_ids(g, c.ignore_broadcast, c.frontier, c.dom1_set)
  IN  IF ~frontier_has_symbolic /\ r1.redundant THEN cdError(c)
      ELSE IF ~dom1_has_symbolic /\ r0.redundant THEN cdError(c)
      ELSE [c EXCEPT !.pc = "done",
                     !.result = CompareDomainResult(
                                  ~dom1_has_symbolic /\ r0.unreachable,
                                  ~frontier_has_symbolic /\ r1.unreachable)]

----------------------------------------------------------------------------
(* compareDomains over the axes of one tensor *)

\* longest domain list and longest additional_ids list
MaxDom == 2
MaxAdditional == 1

\* The axes have any iteration kinds; the split is registered, the merge
\* may be.
InitCD ==
  /\ \E kinds \in [IterDomains -> IterTypes], es \in {{split}, {split, merge}} :
       ids = [iter_type |-> kinds, exprs |-> es]
  /\ fusion = NewFusion(TRUE)
  /\ last = NoCall(fusion)
  /\ steps = 0
  /\ cc = Idle
  /\ cd = Idle
  /\ rd = Idle
  /\ guards = NoGuards

CompareDomains ==
  /\ cd.pc = "idle"
  /\ \E dom0 \in SeqsUpTo(IterDomains, MaxDom), dom1 \in SeqsUpTo(IterDomains, MaxDom),
        additional_ids \in SeqsUpTo(IterDomains, MaxAdditional),
        ignore_broadcast \in BOOLEAN :
       cd' = compareDomainsEntry(ids, dom0, dom1, additional_ids, ignore_broadcast)
  /\ UNCHANGED <<fusion, last, steps, cc, ids, guards, rd>>

CD_TraverseExpr ==
  /\ cd.pc = "loop" /\ cd.i <= Len(cd.exprs)
  /\ cd' = traverseExpr(ids, cd)
  /\ UNCHANGED <<fusion, last, steps, cc, ids, guards, rd>>

CD_DropSymbolic ==
  /\ cd.pc = "loop" /\ cd.i > Len(cd.exprs)
  /\ cd' = dropSymbolic(ids, cd)
  /\ UNCHANGED <<fusion, last, steps, cc, ids, guards, rd>>

CD_CheckDomains ==
  /\ cd.pc = "check"
  /\ cd' = checkDomains(ids, cd)
  /\ UNCHANGED <<fusion, last, steps, cc, ids, guards, rd>>

NextCD ==
  \/ CompareDomains
  \/ CD_TraverseExpr
  \/ CD_DropSymbolic
  \/ CD_CheckDomains

SpecCD == InitCD /\ [][NextCD]_vars

----------------------------------------------------------------------------
(* Claims about compareDomains (checked under SpecCD) *)

Compared == cd.pc = "done"
BothReachable == cd.result = CompareDomainResult(FALSE, FALSE)

\* compareDomains(d, d, {}) for a duplicate-free d
SameDomains ==
  /\ cd.pc # "idle"
  /\ cd.dom0 = cd.dom1
  /\ NoDuplicates(cd.dom0)
  /\ cd.additional_ids = <<>>

\* C6: compareDomains(d, d, no additional ids) returns, for every
\* duplicate-free d and whatever the iteration kinds of its axes,
\* dom0_has_unreachable_ids = dom1_has_unreachable_ids = false (and raises
\* no error).
C6_SameDomainsFullyReachable ==
  SameDomains =>
    /\ cd.pc # "error"
    /\ Compared => BothReachable

\* two different axes, one symbolic and one broadcast that is not ignored
C6_Witness ==
  /\ SameDomains
  /\ Compared
  /\ ~cd.ignore_broadcast
  /\ {getIterType(ids, cd.dom0[i]) : i \in DOMAIN cd.dom0} = {"Symbolic", "Broadcast"}

\* compareDomains([x], [y, z]) and compareDomains([y, z], [x]) where the
\* split takes x to (y, z)
SplitForward ==
  /\ cd.dom0 = split.ins
  /\ Len(cd.dom1) = 2 /\ Range(cd.dom1) = Range(split.outs)
  /\ cd.additional_ids = <<>>

SplitBackward ==
  /\ Len(cd.dom0) = 2 /\ Range(cd.dom0) = Range(split.outs)
  /\ cd.dom1 = split.ins
  /\ cd.additional_ids = <<>>

\* C7: for an axis x split into (y, z), compareDomains([x], [y, z]) and
\* compareDomains([y, z], [x]) report neither domain as having unreachable
\* ids: the split is the one expression traversed (forward, resp.
\* backward), after it the frontier equals dom1, and it still equals what
\* is left of dom1 once the symbolic axes are dropped from both.
C7_SplitComparesReachable ==
  (cd.pc # "idle" /\ (SplitForward \/ SplitBackward)) =>
    /\ cd.pc # "error"
    /\ cd.pc = "loop" =>
         cd.exprs = <<[expr |-> split,
                       direction |-> IF SplitForward THEN "Forward" ELSE "Backward"]>>
    /\ (cd.pc = "loop" /\ cd.i > Len(cd.exprs)) => cd.frontier = Range(cd.dom1)
    /\ cd.pc = "check" => cd.frontier = cd.dom1_set
    /\ Compared => BothReachable

\* the backward comparison has returned; the split axis is a broadcast
\* that is not ignored and one of its halves is symbolic
C7_Witness ==
  /\ Compared
  /\ SplitBackward
  /\ ~cd.ignore_broadcast
  /\ isBroadcast(ids, "i0")
  /\ is_symb(ids, "i1")

----------------------------------------------------------------------------
(* OptOutMutator and ir_utils::replaceValue (ValReplacementMutator) *)

\* OptOutMutator::registerMutation accepts a mutation of the same data type
\* and value type
canMutate(val, mutation) ==
  dtype(mutation) = dtype(val) /\ vtype(mutation) = vtype(val)

\* OptOutMutator::maybeMutated
maybeMutated(mutations, v) == IF v \in DOMAIN mutations THEN mutations[v] ELSE v

\* OptOutMutator::mutateExpr: an expression with a mutated input or output
\* is removed and created anew (and so registered) with the mutated values
mutateExpr(s, mutations, e) ==
  LET ins == [i \in DOMAIN e.ins |-> maybeMutated(mutations, e.ins[i])]
      outs == [i \in DOMAIN e.outs |-> maybeMutated(mutations, e.outs[i])]
  IN  IF ins = e.ins /\ outs = e.outs THEN s
      ELSE With(removeExpr(s, e),
                LAMBDA s1 : IF s1.err THEN s1
                            ELSE registerExpr(s1, E(e.type, ins, outs)))

\* Variant of dispatchMutate(Val*): the mutation is registered with key and
\* replacement exchanged
dispatchMutateVal_swapped(m, replacement_map_, val) ==
  IF val \notin DOMAIN replacement_map_ THEN m
  ELSE IF ~canMutate(val, replacement_map_[val]) THEN [m EXCEPT !.s = throw(@)]
  ELSE [m EXCEPT !.mutations = MapPut(@, replacement_map_[val], val)]

\* ValReplacementMutator::dispatchMutate(Val*)
dispatchMutateVal(m, replacement_map_, val) ==
  IF val \notin DOMAIN replacement_map_ THEN m
  ELSE IF ~canMutate(val, replacement_map_[val]) THEN [m EXCEPT !.s = throw(@)]
  ELSE [m EXCEPT !.mutations = MapPut(@, val, replacement_map_[val])]

\* for (auto stmt : more_stmts) dispatchMutate(stmt)
RECURSIVE mutateAll(_, _, _, _)
mutateAll(m, replacement_map_, stmts, i) ==
  IF i > Len(stmts) \/ m.s.err THEN m
  ELSE With(IF stmts[i].isVal
            THEN dispatchMutateVal(m, replacement_map_, stmts[i].val)
            ELSE [m EXCEPT !.s = mutateExpr(m.s, m.mutations, stmts[i].expr)],
            LAMBDA n : mutateAll(n, replacement_map_, stmts, i + 1))

Concat(seqs) ==
  LET F[i \in 0..Len(seqs)] == IF i = 0 THEN <<>> ELSE F[i-1] \o seqs[i]
  IN  F[Len(seqs)]

\* ValReplacementMutator::allLeafOuts: the outputs of the fusion's
\* expressions that no such expression reads, in order
allLeafOuts(s) ==
  With(getExprs(s),
       LAMBDA got :
         LET inputs == UNION {Range(got.exprs[i].ins) : i \in DOMAIN got.exprs}
             ordered_outputs == Concat([i \in DOMAIN got.exprs |-> got.exprs[i].outs])
         IN  [s |-> got.s,
              vals |-> SelectSeq(ordered_outputs, LAMBDA out : out \notin inputs)])

\* the final loop, in the order the unordered_map yields its entries
RECURSIVE replaceOutputs(_, _, _, _)
replaceOutputs(s, replacement_map_, order, k) ==
  IF k > Len(order) \/ s.err THEN s
  ELSE With(IF s.is_fusion_output_[order[k]]
            THEN replaceOutput(s, order[k], replacement_map_[order[k]]) ELSE s,
            LAMBDA t : replaceOutputs(t, replacement_map_, order, k + 1))

\* replaceValue(fusion, replacement_map); `order` lists the keys of the map
\* in the iteration order of the unordered_map
replaceValue(s, replacement_map_, order) ==
  With(allLeafOuts(s), LAMBDA leaf :
    IF leaf.s.err THEN leaf.s
    ELSE
      With(getStmtsTo(leaf.s, leaf.vals), LAMBDA stmts :
        LET more == SelectSeq(leaf.s.inputs_,
                              LAMBDA v : ValStmt(v) \notin Range(stmts.order))
        IN  With(getStmtsTo(leaf.s, more), LAMBDA more_stmts :
              IF stmts.cycle \/ more_stmts.cycle THEN throw(leaf.s)
              ELSE With(mutateAll([s |-> leaf.s, mutations |-> EmptyMap],
                                  replacement_map_,
                                  more_stmts.order \o stmts.order, 1),
                        LAMBDA m : IF m.s.err THEN m.s
                                   ELSE replaceOutputs(m.s, replacement_map_, order, 1)))))

\* largest replacement map
MaxMap == 2

ReplacementMaps ==
  UNION {[D -> Live] : D \in {X \in SUBSET Live : Cardinality(X) <= MaxMap}}

Orders(D) ==
  {q \in [1..Cardinality(D) -> D] : \A i, j \in DOMAIN q : q[i] = q[j] => i = j}

ReplaceValue ==
  \E map \in ReplacementMaps :
    \E order \in Orders(DOMAIN map) :
      Call("replaceValue", <<map, order>>, replaceValue(fusion, map, order))

\* A graph is built, its inputs and outputs are declared, and the
\* replacement is then run on it once.
Building == last.op # "replaceValue"

NextRV ==
  \/ Building /\ RegisterExpr
  \/ Building /\ AddInput
  \/ Building /\ AddOutput
  \/ Building /\ ReplaceValue

\* The caller has created the tensor it will put in place of another.
InitRV ==
  /\ \E ssa \in BOOLEAN : fusion = registerVal(NewFusion(ssa), "tv3")
  /\ last = NoCall(fusion)
  /\ steps = 0
  /\ cc = Idle
  /\ cd = Idle
  /\ rd = Idle
  /\ guards = NoGuards
  /\ ids = NoIds

SpecRV == InitRV /\ [][NextRV]_vars

----------------------------------------------------------------------------
(* Claims about whole-graph replaceValue (checked under SpecRV) *)

ReplacedValue == last.op = "replaceValue" /\ last.ok
ReplacementMap == last.args[1]

\* no replacement is itself replaced, and none is the value it replaces
PlainMap(map) == \A old \in DOMAIN map : map[old] \notin DOMAIN map

\* C10: after whole-graph replaceValue(fusion, map), for every entry
\* old -> new where old was a declared output before the call, new is in the
\* output list at old's former position, old is no longer in the output
\* list, and old's is-fusion-output flag is cleared.  Stated for maps in
\* which no replacement is a key, and for containers whose output flags
\* agree with the output list.
C10_ReplaceValueMigratesOutputs ==
  (/\ ReplacedValue
   /\ PlainMap(ReplacementMap)
   /\ \A v \in Vals : last.pre.is_fusion_output_[v] <=> InSeq(v, last.pre.outputs_)) =>
    \A old \in DOMAIN ReplacementMap :
      InSeq(old, last.pre.outputs_) =>
        /\ \A i \in DOMAIN last.pre.outputs_ :
             last.pre.outputs_[i] = old =>
               /\ i \in DOMAIN fusion.outputs_
               /\ fusion.outputs_[i] = ReplacementMap[old]
        /\ ~InSeq(old, fusion.outputs_)
        /\ ~fusion.is_fusion_output_[old]

\* the values vs depend on: vs, the inputs of their definitions, and so on
RECURSIVE DefClosure(_, _)
DefClosure(s, W) ==
  LET more == W \cup UNION {Range(definition(s, v).ins) :
                             v \in {w \in W : definition(s, w) # NullExpr}}
  IN  IF more = W THEN W ELSE DefClosure(s, more)

\* the expressions reachable from the declared outputs
LiveExprs(s) ==
  {definition(s, v) : v \in DefClosure(s, Range(s.outputs_))} \ {NullExpr}

NoKeyRead(s, map) ==
  \A e \in LiveExprs(s) : \A k \in DOMAIN map : ~InSeq(k, e.ins)

\* C11 as stated: after whole-graph replaceValue(fusion, map), no
\* expression reachable from the declared outputs takes a key of the map as
\* an input.
C11_AsStated == ReplacedValue => NoKeyRead(fusion, ReplacementMap)

\* no replacement, and nothing a replacement is computed from, is a key
KeyFreeReplacements(s, map) ==
  DefClosure(s, {map[k] : k \in DOMAIN map}) \cap DOMAIN map = {}

\* C11 amended: after whole-graph replaceValue(fusion, map) with a map in
\* which no replacement, and no value a replacement is computed from, is
\* itself a key, no expression reachable from the declared outputs takes a
\* key of the map as an input.
C11_ReplaceValueRebuildsUses ==
  (ReplacedValue /\ KeyFreeReplacements(last.pre, ReplacementMap)) =>
    NoKeyRead(fusion, ReplacementMap)

\* c = a + b with output c and the map {a -> a2}: the output is now defined
\* by an expression with inputs (a2, b)
C11_Witness ==
  /\ ReplacedValue
  /\ ReplacementMap = [k \in {"tv0"} |-> "tv3"]
  /\ last.pre.outputs_ = <<"tv1">>
  /\ definition(last.pre, "tv1") = e_add
  /\ definition(fusion, "tv1") = E("BinaryOp", <<"tv3", "s0">>, <<"tv1">>)

----------------------------------------------------------------------------
(* ir_utils::replaceValInExprInputs (ValReplacement::SubstituteInExpr) *)

\* sie.mutate(expr): OptOutMutator::mutateExpr with removeExpr overridden
\* to do nothing and registerNewExpr recording the expression created
substituteMutate(s, mutations_, expr) ==
  LET ins == [i \in DOMAIN expr.ins |-> maybeMutated(mutations_, expr.ins[i])]
      outs == [i \in DOMAIN expr.outs |-> maybeMutated(mutations_, expr.outs[i])]
      new_expr == E(expr.type, ins, outs)
  IN  IF ins = expr.ins /\ outs = expr.outs THEN [s |-> s, expr_ |-> NullExpr]
      ELSE [s |-> registerExpr(s, new_expr), expr_ |-> new_expr]

\* Variant of subsitute: sie.expr_ is returned whether or not it was set
subsitute_noFallback(s, expr, reference, substitute) ==
  IF expr = NullExpr \/ reference = NULL \/ substitute = NULL
  THEN [s |-> throw(s), ret |-> NullExpr]
  ELSE With(substituteMutate(s, MapPut(EmptyMap, reference, substitute), expr),
            LAMBDA sie : [s |-> sie.s, ret |-> sie.expr_])

\* SubstituteInExpr::subsitute
subsitute(s, expr, reference, substitute) ==
  IF expr = NullExpr \/ reference = NULL \/ substitute = NULL
  THEN [s |-> throw(s), ret |-> NullExpr]
  ELSE With(substituteMutate(s, MapPut(EmptyMap, reference, substitute), expr),
            LAMBDA sie : [s |-> sie.s,
                          ret |-> IF sie.expr_ = NullExpr THEN expr ELSE sie.expr_])

replaceValInExprInputs(s, expr, reference, substitute) ==
  subsitute(s, expr, reference, substitute)

ReplaceValInExprInputs ==
  \E expr \in fusion.exprs_, reference \in Live \cup {NULL}, substitute \in Live \cup {NULL} :
    CallRet("replaceValInExprInputs", <<expr, reference, substitute>>,
            replaceValInExprInputs(fusion, expr, reference, substitute))

----------------------------------------------------------------------------
(* ir_utils::transferDefinitionToNewOutputs *)

\* OptOutMutator::mutateExprOutputsOnly: an expression with a mutated output
\* is removed and created anew (and so registered) with the mutated outputs
mutateExprOutputsOnly(s, mutations, expr) ==
  LET outs == [i \in DOMAIN expr.outs |-> maybeMutated(mutations, expr.outs[i])]
      new_expr == E(expr.type, expr.ins, outs)
  IN  IF outs = expr.outs THEN [s |-> s, ret |-> expr]
      ELSE With(removeExpr(s, expr),
                LAMBDA s1 : IF s1.err THEN [s |-> s1, ret |-> NullExpr]
                            ELSE [s |-> registerExpr(s1, new_expr), ret |-> new_expr])

\* Variant of newOutputOk: a new output that has a definition is accepted
newOutputOk_noDefinitionCheck(s, old_output, new_output) ==
  /\ ~isConst(new_output)
  /\ vtype(new_output) = vtype(old_output)
  /\ dtype(new_output) = dtype(old_output)

\* the NVF_ERRORs on new_outputs.at(i), for a new output other than the old
newOutputOk(s, old_output, new_output) ==
  /\ ~isConst(new_output)
  /\ vtype(new_output) = vtype(old_output)
  /\ dtype(new_output) = dtype(old_output)
  /\ definition(s, new_output) = NullExpr

\* the loop over new_outputs: the mutations registered, or an error
RECURSIVE checkNewOutputs(_, _, _, _, _)
checkNewOutputs(s, expr, new_outputs, i, mutations) ==
  IF i > Len(new_outputs) THEN [err |-> FALSE, mutations |-> mutations]
  ELSE IF new_outputs[i] = expr.outs[i]
       THEN checkNewOutputs(s, expr, new_outputs, i + 1, mutations)
  ELSE IF ~newOutputOk(s, expr.outs[i], new_outputs[i])
            \/ ~canMutate(expr.outs[i], new_outputs[i])
       THEN [err |-> TRUE, mutations |-> mutations]
  ELSE checkNewOutputs(s, expr, new_outputs, i + 1,
                       MapPut(mutations, expr.outs[i], new_outputs[i]))

transferDefinitionToNewOutputs(s, expr, new_outputs) ==
  IF Len(new_outputs) # Len(expr.outs) THEN [s |-> throw(s), ret |-> NullExpr]
  ELSE With(checkNewOutputs(s, expr, new_outputs, 1, EmptyMap),
            LAMBDA mutator :
              IF mutator.err THEN [s |-> throw(s), ret |-> NullExpr]
              ELSE mutateExprOutputsOnly(s, mutator.mutations, expr))

\* longest list of new outputs
MaxOuts == 2

TransferDefinitionToNewOutputs ==
  \E expr \in fusion.exprs_, new_outputs \in SeqsUpTo(Live, MaxOuts) :
    CallRet("transferDefinitionToNewOutputs", <<expr, new_outputs>>,
            transferDefinitionToNewOutputs(fusion, expr, new_outputs))

\* Expressions are registered and rewritten.
NextSub ==
  \/ RegisterExpr
  \/ ReplaceValInExprInputs
  \/ TransferDefinitionToNewOutputs

\* The caller has created a tensor and a constant.
InitSub ==
  /\ \E ssa \in BOOLEAN :
       fusion = registerVal(registerVal(NewFusion(ssa), "tv3"), "c0")
  /\ last = NoCall(fusion)
  /\ steps = 0
  /\ cc = Idle
  /\ cd = Idle
  /\ rd = Idle
  /\ guards = NoGuards
  /\ ids = NoIds

SpecSub == InitSub /\ [][NextSub]_vars

----------------------------------------------------------------------------
(* Claims about replaceValInExprInputs (checked under SpecSub) *)

Substituted == last.op = "replaceValInExprInputs" /\ last.ok
IsOperand(v, expr) == InSeq(v, expr.ins) \/ InSeq(v, expr.outs)

\* the expression returned is a new one, it has substitute wherever
\* reference stood among the inputs, and every other operand where it was
SubstitutedIn(ret, expr, reference, substitute) ==
  /\ ret # expr
  /\ ret.type = expr.type
  /\ ret.ins = ReplaceIf(expr.ins, reference, substitute)
  /\ Len(ret.outs) = Len(expr.outs)
  /\ \A i \in DOMAIN expr.outs : expr.outs[i] # reference => ret.outs[i] = expr.outs[i]

\* C12 as stated: replaceValInExprInputs(expr, reference, substitute)
\* returns expr itself when reference is not an operand of expr, and when
\* reference is an input of expr it returns a new expression in which every
\* occurrence of reference among the inputs is substitute and all other
\* operands are unchanged and in the same positions.
C12_AsStated ==
  Substituted =>
    /\ ~IsOperand(last.args[2], last.args[1]) => last.ret = last.args[1]
    /\ InSeq(last.args[2], last.args[1].ins) =>
         SubstitutedIn(last.ret, last.args[1], last.args[2], last.args[3])

\* C12 amended: replaceValInExprInputs(expr, reference, substitute) returns
\* expr itself, and leaves the container as it was, when reference is not
\* an operand of expr; when reference is an input of expr and substitute is
\* a value other than reference, it returns a new expression in which
\* every occurrence of reference among the inputs is substitute and all
\* other operands are unchanged and in the same positions.
C12_SubstituteInExpr ==
  Substituted =>
    /\ ~IsOperand(last.args[2], last.args[1]) =>
         /\ last.ret = last.args[1]
         /\ fusion = last.pre
    /\ (InSeq(last.args[2], last.args[1].ins) /\ last.args[3] # last.args[2]) =>
         SubstitutedIn(last.ret, last.args[1], last.args[2], last.args[3])

\* the first of two inputs is substituted by a value that is no operand
C12_Witness ==
  /\ Substituted
  /\ last.args[1] = e_add
  /\ last.args[2] = "tv0"
  /\ last.ret = E("BinaryOp", <<"tv3", "s0">>, <<"tv1">>)

----------------------------------------------------------------------------
(* Claims about transferDefinitionToNewOutputs (checked under SpecSub) *)

Transferred == last.op = "transferDefinitionToNewOutputs"

\* a new output that is not the old output of its position and is a
\* constant, of another value type or data type, or already defined
BadNewOutput(s, expr, new_outputs) ==
  \E i \in DOMAIN new_outputs \cap DOMAIN expr.outs :
    /\ new_outputs[i] # expr.outs[i]
    /\ \/ isConst(new_outputs[i])
       \/ vtype(new_outputs[i]) # vtype(expr.outs[i])
       \/ dtype(new_outputs[i]) # dtype(expr.outs[i])
       \/ definition(s, new_outputs[i]) # NullExpr

\* C13: transferDefinitionToNewOutputs(expr, new_outputs) fails when the
\* number of new outputs is not the number of outputs of expr, or when a
\* new output other than the old output of its position is a constant, has
\* another value type or data type, or already has a definition; the failed
\* call leaves expr registered with its outputs and leaves every definition
\* (and the rest of the container) as it was.
C13_TransferDefinitionFails ==
  (/\ Transferred
   /\ \/ Len(last.args[2]) # Len(last.args[1].outs)
      \/ BadNewOutput(last.pre, last.args[1], last.args[2])) =>
    /\ ~last.ok
    /\ last.args[1] \in fusion.exprs_
    /\ fusion.definition_ = last.pre.definition_
    /\ fusion = last.pre

\* the second of two new outputs is of the right types but is defined by
\* another expression; the first is acceptable
C13_Witness ==
  /\ Transferred
  /\ ~last.ok
  /\ Len(last.args[2]) = 2 /\ Len(last.args[1].outs) = 2
  /\ last.args[2][1] # last.args[1].outs[1]
  /\ newOutputOk(last.pre, last.args[1].outs[1], last.args[2][1])
  /\ canMutate(last.args[1].outs[2], last.args[2][2])
  /\ definition(last.pre, last.args[2][2]) # NullExpr
  /\ last.args[2][2] # last.args[1].outs[2]

----------------------------------------------------------------------------
(* ir_utils::replaceValRecursively *)

\* IrBuilder::create<Val>(dtype): a value not yet in the container, NULL
\* when the model has none left
createVal(s, dt) ==
  LET free == SelectSeq(FreshVals, LAMBDA v : v \notin s.vals_ /\ dtype(v) = dt)
  IN  IF free = <<>> THEN NULL ELSE free[1]

\* the result of a call: the container left behind, the value returned,
\* and whether the model ran out of values to create
Result(s, ret, full) == [s |-> s, ret |-> ret, full |-> full]

\* Variant of rebuilt: the expression is rebuilt whether or not an operand
\* changed
rebuilt_always(s, val, def, mutated_inputs, mutated_attrs) ==
  LET out == createVal(s, dtype(val))
  IN  IF out = NULL THEN Result(s, NULL, TRUE)
      ELSE Result(registerExpr(registerVal(s, out),
                               newObject(def, mutated_inputs, <<out>>, mutated_attrs)),
                  out, FALSE)

\* from `if (!mutated)` to the return
rebuilt(s, val, def, mutated_inputs, mutated_attrs) ==
  IF mutated_inputs = def.ins /\ mutated_attrs = attributes(def)
  THEN Result(s, val, FALSE)
  ELSE LET out == createVal(s, dtype(val))
       IN  IF out = NULL THEN Result(s, NULL, TRUE)
           ELSE Result(registerExpr(registerVal(s, out),
                                    newObject(def, mutated_inputs, <<out>>, mutated_attrs)),
                       out, FALSE)

\* Variant of singleOutput: the NVF_ERROR is dropped
singleOutput_any(def) == TRUE

\* NVF_ERROR(def->outputs().size() == 1)
singleOutput(def) == Len(def.outs) = 1

RECURSIVE replaceValRecursively(_, _, _)

\* the loops over def->inputs() and def->attributes(); a statement that is
\* not a Val is kept
RECURSIVE replaceEach(_, _, _, _, _)
replaceEach(s, stmts, replacement_map, i, acc) ==
  IF i > Len(stmts) THEN [s |-> s, vals |-> acc, full |-> FALSE]
  ELSE IF stmts[i] \notin Vals
       THEN replaceEach(s, stmts, replacement_map, i + 1, Append(acc, stmts[i]))
  ELSE With(replaceValRecursively(s, stmts[i], replacement_map),
            LAMBDA r : IF r.s.err \/ r.full
                       THEN [s |-> r.s, vals |-> acc, full |-> r.full]
                       ELSE replaceEach(r.s, stmts, replacement_map, i + 1,
                                        Append(acc, r.ret)))

replaceValRecursively(s, val, replacement_map) ==
  IF val \in DOMAIN replacement_map THEN Result(s, replacement_map[val], FALSE)
  ELSE
    LET def == definition(s, val)
    IN  IF def = NullExpr THEN Result(s, val, FALSE)
        ELSE IF ~singleOutput(def) THEN Result(throw(s), NULL, FALSE)
        ELSE
          With(replaceEach(s, def.ins, replacement_map, 1, <<>>), LAMBDA a :
            IF a.s.err \/ a.full THEN Result(a.s, NULL, a.full)
            ELSE
              With(replaceEach(a.s, attributes(def), replacement_map, 1, <<>>), LAMBDA b :
                IF b.s.err \/ b.full THEN Result(b.s, NULL, b.full)
                ELSE rebuilt(b.s, val, def, a.vals, b.vals)))

ReplaceValRecursively ==
  \E val \in Live, map \in ReplacementMaps :
    \E r \in {replaceValRecursively(fusion, val, map)} :
      /\ ~r.full
      /\ CallRet("replaceValRecursively", <<val, map>>, r)

RegisterExprWithAttributes ==
  /\ Range(e_attr.ins) \cup Range(e_attr.outs) \subseteq Live
  /\ Call("registerExpr", <<e_attr>>, registerExpr(fusion, e_attr))

\* A graph is built and a value of it is then replaced recursively, once.
BuildingRec == last.op # "replaceValRecursively"

NextRec ==
  \/ BuildingRec /\ RegisterExpr
  \/ BuildingRec /\ RegisterExprWithAttributes
  \/ BuildingRec /\ ReplaceValRecursively

\* The caller has created a tensor and a constant and may have registered
\* a first expression.
InitRec ==
  /\ \E ssa \in BOOLEAN, first \in Exprs \cup {NullExpr} :
       LET s == registerVal(registerVal(NewFusion(ssa), "tv3"), "c0")
       IN  fusion = IF first = NullExpr THEN s ELSE registerExpr(s, first)
  /\ last = NoCall(fusion)
  /\ steps = 0
  /\ cc = Idle
  /\ cd = Idle
  /\ rd = Idle
  /\ guards = NoGuards
  /\ ids = NoIds

SpecRec == InitRec /\ [][NextRec]_vars

----------------------------------------------------------------------------
(* Claims about replaceValRecursively (checked under SpecRec) *)

Recursively == last.op = "replaceValRecursively"
RecVal == last.args[1]
RecMap == last.args[2]
NewVals == fusion.vals_ \ last.pre.vals_
NewExprs == fusion.exprs_ \ last.pre.exprs_

\* the operands of an expression the substitution descends into
ValOperands(e) == (Range(e.ins) \cup Range(attributes(e))) \cap Vals

\* substitution puts another value in the place of v: v is mapped to
\* another value, or an operand of its definition is changed in turn
RECURSIVE Changes(_, _, _)
Changes(s, v, map) ==
  IF v \in DOMAIN map THEN map[v] # v
  ELSE /\ definition(s, v) # NullExpr
       /\ \E x \in ValOperands(definition(s, v)) : Changes(s, x, map)

\* e is d with another input or another attribute and one new output
RebuiltFrom(e, d) ==
  /\ e.type = d.type
  /\ Len(e.ins) = Len(d.ins) /\ Len(attributes(e)) = Len(attributes(d))
  /\ e.ins # d.ins \/ attributes(e) # attributes(d)
  /\ Len(e.outs) = 1 /\ e.outs[1] \in NewVals

\* C14: replaceValRecursively(val, map) returns map[val] when val is a key
\* of the map; otherwise, when val has no definition or the substitution
\* changes no input and no value attribute of its definition, it returns
\* val and creates no value and no expression; when an operand changed it
\* returns a new value defined by the rebuilt expression; and every
\* expression created is an expression of the container with another
\* input or attribute and a new value as its output.
C14_ReplaceValRecursively ==
  (Recursively /\ last.ok) =>
    /\ RecVal \in DOMAIN RecMap =>
         /\ last.ret = RecMap[RecVal]
         /\ fusion = last.pre
    /\ (RecVal \notin DOMAIN RecMap /\ ~Changes(last.pre, RecVal, RecMap)) =>
         /\ last.ret = RecVal
         /\ NewVals = {} /\ NewExprs = {}
    /\ (RecVal \notin DOMAIN RecMap /\ Changes(last.pre, RecVal, RecMap)) =>
         /\ last.ret \in NewVals
         /\ RebuiltFrom(definition(fusion, last.ret), definition(last.pre, RecVal))
    /\ \A e \in NewExprs : \E d \in last.pre.exprs_ : RebuiltFrom(e, d)
    /\ Cardinality(NewVals) = Cardinality(NewExprs)

\* a value two definitions above the mapped one: both are rebuilt
C14_Witness ==
  /\ Recursively /\ last.ok
  /\ RecVal \notin DOMAIN RecMap
  /\ Cardinality(NewVals) = 2
  /\ last.ret \in NewVals

\* the substitution comes to an unmapped value whose definition has more
\* than one output
RECURSIVE ReachesMultiOutput(_, _, _)
ReachesMultiOutput(s, v, map) ==
  /\ v \notin DOMAIN map
  /\ definition(s, v) # NullExpr
  /\ \/ Len(definition(s, v).outs) > 1
     \/ \E x \in ValOperands(definition(s, v)) : ReachesMultiOutput(s, x, map)

MultiOutputKinds(s) == {d.type : d \in {x \in s.exprs_ : Len(x.outs) > 1}}

\* C15: replaceValRecursively fails whenever it reaches an unmapped value
\* whose defining expression has more than one output, and it creates no
\* value and no expression for that value: no expression of such a kind is
\* created, and nothing at all when the value is the argument itself.
C15_MultiOutputFails ==
  (Recursively /\ ReachesMultiOutput(last.pre, RecVal, RecMap)) =>
    /\ ~last.ok
    /\ \A e \in NewExprs : e.type \notin MultiOutputKinds(last.pre)
    /\ Cardinality(NewVals) = Cardinality(NewExprs)
    /\ Len(definition(last.pre, RecVal).outs) > 1 => fusion = last.pre

\* the call fails at the second input of a definition, after the first
\* input has been rebuilt
C15_Witness ==
  /\ Recursively /\ ~last.ok
  /\ ReachesMultiOutput(last.pre, RecVal, RecMap)
  /\ NewExprs # {}

----------------------------------------------------------------------------
(* Declaring inputs and outputs and removing values *)

NextRoles ==
  \/ AddInput
  \/ AddOutput
  \/ RemoveInput
  \/ RemoveOutput
  \/ ReplaceOutput
  \/ RemoveVal
  \/ RegisterExpr
  \/ ResetTvUses

SpecRoles == InitFusion /\ [][NextRoles]_vars

----------------------------------------------------------------------------
(* Claims about removeVal, addInput, removeInput and removeOutput (checked *)
(* under SpecRoles)                                                        *)

\* C16: removeVal(v) fails when v is in the input list or in the output
\* list, and the failed call removes nothing: the value set, the
\* expression set, the definitions and the use lists are as before the call.
C16_RemoveDeclaredValFails ==
  (/\ last.op = "removeVal"
   /\ InSeq(last.args[1], last.pre.inputs_) \/ InSeq(last.args[1], last.pre.outputs_)) =>
    /\ ~last.ok
    /\ fusion.vals_ = last.pre.vals_
    /\ fusion.exprs_ = last.pre.exprs_
    /\ fusion.definition_ = last.pre.definition_
    /\ fusion.uses_ = last.pre.uses_

\* C17: addInput(v) fails when v is already in the input list, and the
\* failed call leaves the input list as it was.
C17_AddInputTwiceFails ==
  (last.op = "addInput" /\ InSeq(last.args[1], last.pre.inputs_)) =>
    /\ ~last.ok
    /\ fusion.inputs_ = last.pre.inputs_

\* addInput(v) right after addInput(v), with another input declared before
C17_Witness ==
  /\ last.op = "addInput" /\ ~last.ok
  /\ Len(last.pre.inputs_) = 2
  /\ last.pre.inputs_[2] = last.args[1]

\* C18: removeInput(v), resp. removeOutput(v), with v not in the input,
\* resp. output, list raises no error and leaves both lists, the values,
\* the expressions, the definitions and the use lists as they were; and
\* after every removeInput(v), resp. removeOutput(v), v's is-input, resp.
\* is-output, flag is false.
C18_RemoveMissingRoleIsBenign ==
  /\ last.op = "removeInput" =>
       /\ ~fusion.is_fusion_input_[last.args[1]]
       /\ ~InSeq(last.args[1], last.pre.inputs_) =>
            /\ last.ok
            /\ [fusion EXCEPT !.all_tv_uses_valid_ = last.pre.all_tv_uses_valid_,
                              !.is_fusion_input_ = last.pre.is_fusion_input_] = last.pre
  /\ last.op = "removeOutput" =>
       /\ ~fusion.is_fusion_output_[last.args[1]]
       /\ ~InSeq(last.args[1], last.pre.outputs_) =>
            /\ last.ok
            /\ [fusion EXCEPT !.all_tv_uses_valid_ = last.pre.all_tv_uses_valid_,
                              !.is_fusion_output_ = last.pre.is_fusion_output_] = last.pre

\* removeOutput of a value that is not an output, from a container that
\* has an input and an output
C18_Witness ==
  /\ last.op = "removeOutput" /\ last.ok
  /\ ~InSeq(last.args[1], last.pre.outputs_)
  /\ last.pre.outputs_ # <<>>
  /\ last.pre.inputs_ # <<>>

----------------------------------------------------------------------------
(* Registering and removing expressions while use lists are recomputed *)

\* The caller may have registered a first expression.
InitUses ==
  /\ \E ssa \in BOOLEAN, first \in Exprs \cup {NullExpr} :
       /\ first # NullExpr => Range(first.ins) \cup Range(first.outs) \subseteq Created
       /\ fusion = IF first = NullExpr THEN NewFusion(ssa)
                   ELSE registerExpr(NewFusion(ssa), first)
  /\ last = NoCall(fusion)
  /\ steps = 0
  /\ cc = Idle
  /\ cd = Idle
  /\ rd = Idle
  /\ guards = NoGuards
  /\ ids = NoIds

NextUses ==
  \/ RegisterExpr
  \/ RemoveExpr
  \/ AddOutput
  \/ ResetTvUses

SpecUses == InitUses /\ [][NextUses]_vars

----------------------------------------------------------------------------
(* Claims about removeExpr and registerExpr (checked under SpecUses) *)

\* C19: after removeExpr(e) on a registered expression e, e is in the use
\* list of none of its inputs, the definition pointer of every output of e
\* is null, and e is no longer registered in the container.
C19_RemoveExprDetaches ==
  (last.op = "removeExpr" /\ last.ok) =>
    /\ \A i \in DOMAIN last.args[1].ins :
         ~InSeq(last.args[1], fusion.uses_[last.args[1].ins[i]])
    /\ \A i \in DOMAIN last.args[1].outs :
         fusion.definition_[last.args[1].outs[i]] = NullExpr
    /\ ~inContainerExpr(fusion, last.args[1])

\* the expression removed was in the use lists of a tensor and of a scalar
\* and defined its output
C19_Witness ==
  /\ last.op = "removeExpr" /\ last.ok
  /\ last.args[1] = e_add
  /\ InSeq(e_add, last.pre.uses_["tv0"])
  /\ InSeq(e_add, last.pre.uses_["s0"])
  /\ last.pre.definition_["tv1"] = e_add

RegisteredNew ==
  last.op = "registerExpr" /\ last.ok /\ ~inContainerExpr(last.pre, last.args[1])

\* C20 as stated: registering a not-yet-registered expression e adds e to
\* the use list of each of its non-tensor inputs; the use list of each
\* tensor input is as it was and the use-lists-valid flag is false.
C20_AsStated ==
  RegisteredNew =>
    \A i \in DOMAIN last.args[1].ins :
      LET input == last.args[1].ins[i]
      IN  IF vtype(input) = "TensorView"
          THEN /\ fusion.uses_[input] = last.pre.uses_[input]
               /\ ~fusion.all_tv_uses_valid_
          ELSE InSeq(last.args[1], fusion.uses_[input])

\* C20 amended: registering a not-yet-registered expression e adds e to the
\* use list of each of its non-tensor inputs; e is not added to the use
\* list of a tensor input (the list can only lose an expression, the one
\* that defined an output of e and is removed) and the use-lists-valid flag
\* is false.
C20_RegisterExprUpdatesUses ==
  RegisteredNew =>
    \A i \in DOMAIN last.args[1].ins :
      LET input == last.args[1].ins[i]
      IN  IF vtype(input) = "TensorView"
          THEN /\ ~InSeq(last.args[1], fusion.uses_[input])
               /\ Range(fusion.uses_[input]) \subseteq Range(last.pre.uses_[input])
               /\ ~fusion.all_tv_uses_valid_
          ELSE InSeq(last.args[1], fusion.uses_[input])

\* an expression with a tensor input and a scalar input is registered
\* while the use lists are valid
C20_Witness ==
  /\ RegisteredNew
  /\ last.args[1] = e_add
  /\ last.pre.all_tv_uses_valid_
  /\ InSeq(e_add, fusion.uses_["s0"])

----------------------------------------------------------------------------
(* Claims about redefinition in registerExpr (checked under SpecGraph) *)

\* registerExpr(e) was called on an expression that was not registered, in
\* the kernel flavor, resp. in single-assignment mode
RegisteredInKernel ==
  last.op = "registerExpr" /\ last.args[1] \notin last.pre.exprs_ /\ ~last.pre.is_ssa
RegisteredInSsa ==
  last.op = "registerExpr" /\ last.args[1] \notin last.pre.exprs_ /\ last.pre.is_ssa

\* the outputs of the registered expression that had a defining expression
Redefined == {o \in Range(last.args[1].outs) : definition(last.pre, o) # NullExpr}

\* C21 as stated: in the kernel flavor, registering e with an output o that
\* has a defining expression d removes d, and o's definition is e.
C21_AsStated ==
  RegisteredInKernel =>
    \A o \in Redefined :
      /\ definition(last.pre, o) \notin fusion.exprs_
      /\ definition(fusion, o) = last.args[1]

\* C21: in the kernel flavor, registering e with an output o that has a
\* defining expression d succeeds and registers e, d stays registered, and
\* o's definition is still d.
C21_KernelKeepsDefinition ==
  RegisteredInKernel =>
    /\ last.ok
    /\ last.args[1] \in fusion.exprs_
    /\ \A o \in Redefined :
         /\ definition(last.pre, o) \in fusion.exprs_
         /\ definition(fusion, o) = definition(last.pre, o)

\* e_init was registered in a kernel in which e_add defines tv1
C21_Witness ==
  /\ RegisteredInKernel
  /\ last.args[1] = e_init
  /\ definition(last.pre, "tv1") = e_add
  /\ {e_add, e_init} \subseteq fusion.exprs_
  /\ definition(fusion, "tv1") = e_add

\* C22 as stated: in single-assignment mode, registering an expression
\* with an output that has a defining expression fails and the output
\* keeps its definition.
C22_AsStated ==
  (RegisteredInSsa /\ Redefined # {}) =>
    /\ ~last.ok
    /\ \A o \in Redefined : definition(fusion, o) = definition(last.pre, o)

\* C22: in single-assignment mode, registering e with an output o that has
\* a defining expression d succeeds, d is removed from the container, and
\* o's definition is no longer d; it is e when o is the only output of e.
C22_SsaReplacesDefinition ==
  RegisteredInSsa =>
    /\ last.ok
    /\ \A o \in Redefined :
         /\ definition(last.pre, o) \notin fusion.exprs_
         /\ definition(fusion, o) # definition(last.pre, o)
         /\ last.args[1].outs = <<o>> =>
              /\ definition(fusion, o) = last.args[1]
              /\ last.args[1] \in fusion.exprs_

\* e_two was registered in a single-assignment container in which e_dead
\* defines tv2: e_dead is gone and e_two defines tv0 and tv2
C22_Witness ==
  /\ RegisteredInSsa
  /\ last.args[1] = e_two
  /\ definition(last.pre, "tv2") = e_dead
  /\ e_dead \notin fusion.exprs_
  /\ definition(fusion, "tv0") = e_two
  /\ definition(fusion, "tv2") = e_two

----------------------------------------------------------------------------
(* A fusion that was built and is then edited *)

\* The caller has registered tv1 = tv0 + s0 and tv2 = op(tv1), declared
\* tv2, or tv1 and tv2, outputs, and may have asked for the use lists.
InitBuilt ==
  /\ \E ssa \in BOOLEAN, outs \in {<<"tv2">>, <<"tv1", "tv2">>}, reset \in BOOLEAN :
       LET built == addOutputs(registerAll(NewFusion(ssa), <<e_add, e_dead>>, 1), outs, 1)
       IN  fusion = IF reset THEN resetTvUses(built) ELSE built
  /\ last = NoCall(fusion)
  /\ steps = 0
  /\ cc = Idle
  /\ cd = Idle
  /\ rd = Idle
  /\ guards = NoGuards
  /\ ids = NoIds

NextBuilt ==
  \/ AddInput
  \/ RemoveInput
  \/ AddOutput
  \/ RemoveOutput
  \/ RegisterExpr
  \/ RemoveExpr
  \/ ResetTvUses

SpecBuilt == InitBuilt /\ [][NextBuilt]_vars

----------------------------------------------------------------------------
(* Claims about resetTvUses (checked under SpecBuilt) *)

ResetDone == last.op = "resetTvUses" /\ last.ok

\* the expressions found by the topological traversal from the declared
\* outputs
ExprsFromOutputs(s) == Range(getExprsTo(s, s.outputs_).order)

TensorsOf(s) == {v \in s.vals_ : vtype(v) = "TensorView"}

----------------------------------------------------------------------------
(* Aliasing under a caller that may also pass null or the NoAlias kind *)

\* aliasOutputToInput with a null pointer or with AliasType::NoAlias; the
\* in-place kind dereferences both pointers and is not called with null
AliasOutputToInputUnchecked ==
  \E o \in Live \cup {NULL}, i \in Live \cup {NULL},
     ty \in {"NoAlias", "PointerArithmetic"} :
    /\ o = NULL \/ i = NULL \/ ty = "NoAlias"
    /\ Call("aliasOutputToInput", <<o, i, ty>>, aliasOutputToInput(fusion, o, i, ty))

NextAlias ==
  \/ AddInput
  \/ AddOutput
  \/ RemoveOutput
  \/ ReplaceOutput
  \/ AliasOutputToInput
  \/ AliasOutputToInputUnchecked

SpecAlias == InitFusion /\ [][NextAlias]_vars

----------------------------------------------------------------------------
(* Claims about aliasOutputToInput (checked under SpecAlias) *)

Aliased == last.op = "aliasOutputToInput"
AliasOut == last.args[1]
AliasIn == last.args[2]
AliasKind == last.args[3]

\* the in-place kind unwraps the input and casts the output
AutoCasts(kind) == kind = "InplaceUpdate"

\* the input the in-place kind compares: the operand of the defining cast
\* of an input that is not a fusion input
ComparedInput ==
  IF last.pre.is_fusion_input_[AliasIn] \/ definition(last.pre, AliasIn) = NullExpr
  THEN AliasIn
  ELSE definition(last.pre, AliasIn).ins[1]

AliasDone == Aliased /\ last.ok

\* the output the alias entry was made for: the cast the in-place kind
\* inserted when the data types differ, the output passed otherwise
AliasedOutput ==
  IF AutoCasts(AliasKind) /\ dtype(ComparedInput) # dtype(AliasOut)
  THEN castResult ELSE AliasOut

\* C25: after a successful aliasOutputToInput the aliased output is in the
\* output list; if it was not in the list when the call was made it has
\* been appended and its alias entry has the hide flag set, and if it was
\* in the list the list is unchanged and the hide flag is not set.
C25_AliasDeclaresHiddenOutput ==
  AliasDone =>
    /\ InSeq(AliasedOutput, fusion.outputs_)
    /\ IF InSeq(AliasedOutput, last.pre.outputs_)
       THEN /\ fusion.outputs_ = last.pre.outputs_
            /\ ~fusion.io_alias_[AliasedOutput].hide_output
       ELSE /\ fusion.outputs_ = Append(last.pre.outputs_, AliasedOutput)
            /\ fusion.io_alias_[AliasedOutput].hide_output

----------------------------------------------------------------------------
(* Claims about the loop of compareDomains (checked under SpecCD) *)

\* the loop is about to process an expression
Traversing == cd.pc = "loop" /\ cd.i <= Len(cd.exprs)
CurFrom == fromSide(cd.exprs[cd.i].expr, cd.exprs[cd.i].direction)
CurTo == toSide(cd.exprs[cd.i].expr, cd.exprs[cd.i].direction)

\* all its "from" axes are in additional-ids
SideChannel == Range(CurFrom) \subseteq cd.additional_ids_set

\* the "to" axes outside additional-ids
Accepted == Range(CurTo) \ cd.additional_ids_set

\* a "to" axis outside additional-ids is already in the frontier when its
\* turn comes
Clash ==
  \E k \in DOMAIN CurTo :
    /\ CurTo[k] \notin cd.additional_ids_set
    /\ CurTo[k] \in cd.frontier \/ \E j \in 1..(k - 1) : CurTo[j] = CurTo[k]

\* C26 as stated: compareDomains fails, and returns no result, whenever a
\* traversed expression has a "to" axis outside additional-ids that is
\* already in the frontier.
C26_AsStated ==
  [][(Traversing /\ Clash) => cd'.pc = "error"]_vars

\* C26: whenever a traversed expression, not all of whose "from" axes are
\* in additional-ids, has a "to" axis outside additional-ids that is
\* already in the frontier, compareDomains fails and returns no result;
\* when the expression is processed without error its "to" axes outside
\* additional-ids were all new to the frontier, and the frontier is the
\* old one with them inserted and the "from" axes erased.
C26_ToAxesAreNew ==
  [][(Traversing /\ ~SideChannel) =>
       /\ Clash => cd'.pc = "error"
       /\ cd'.pc # "error" =>
            /\ Accepted \cap cd.frontier = {}
            /\ cd'.frontier = (cd.frontier \cup Accepted) \ Range(CurFrom)]_vars

\* the split of i0 failed: i0 and one of its halves were both in dom0
C26_Witness ==
  /\ cd.pc = "error"
  /\ cd.i = 2
  /\ cd.exprs[1] = [expr |-> split, direction |-> "Forward"]
  /\ cd.additional_ids = <<>>
  /\ Range(cd.dom0) \cap Range(split.outs) # {}
  /\ "i0" \in Range(cd.dom0)

----------------------------------------------------------------------------
(* Claims about the checks of compareDomains (checked under SpecCD) *)

\* after the common symbolic axes were dropped
Checking == cd.pc = "check"
FrontierHasSymbolic == \E v \in cd.frontier : is_symb(ids, v)
Dom1HasSymbolic == \E v \in cd.dom1_set : is_symb(ids, v)

\* what the two checks would find
Dom1Check == check_ids(ids, cd.ignore_broadcast, Range(cd.dom1), cd.frontier)
Dom0Check == check_ids(ids, cd.ignore_broadcast, cd.frontier, cd.dom1_set)

\* C27: when the frontier still has a symbolic axis after the common
\* symbolic axes were dropped, a result that is returned has
\* dom1_has_unreachable_ids = false and an error can only be the
\* redundancy error of the other check; when dom1 still has one, the same
\* with dom0_has_unreachable_ids and the two checks exchanged; whatever the
\* other axes are.
C27_SymbolicSkipsCheck ==
  [][Checking =>
       /\ cd'.pc \in {"done", "error"}
       /\ FrontierHasSymbolic =>
            /\ cd'.pc = "done" => ~cd'.result.dom1_has_unreachable_ids
            /\ cd'.pc = "error" => ~Dom1HasSymbolic /\ Dom0Check.redundant
       /\ Dom1HasSymbolic =>
            /\ cd'.pc = "done" => ~cd'.result.dom0_has_unreachable_ids
            /\ cd'.pc = "error" => ~FrontierHasSymbolic /\ Dom1Check.redundant]_vars

\* a result was returned although the frontier has a symbolic axis and an
\* axis of dom1 that is not symbolic is missing from it and redundant
C27_Witness ==
  /\ Compared
  /\ cd.dom0 # <<>>
  /\ FrontierHasSymbolic
  /\ Dom1Check.unreachable
  /\ Dom1Check.redundant
  /\ ~cd.result.dom1_has_unreachable_ids

\* the axes of ids_to_check that check_ids finds missing from target_set
MissingIds(ids_to_check, target_set) ==
  {id \in ids_to_check :
     /\ ~is_symb(ids, id)
     /\ ~(cd.ignore_broadcast /\ isBroadcast(ids, id))
     /\ id \notin target_set}

\* C28: an axis that is in additional-ids, or was derived only from
\* additional-ids, never causes dom0_has_unreachable_ids or
\* dom1_has_unreachable_ids to be reported true: whenever one of them is
\* reported true, an axis outside additional-ids is missing on that side
\* (for additional-ids that are not axes of dom0).
C28_AdditionalIdsNotCompared ==
  (Compared /\ Range(cd.additional_ids) \cap Range(cd.dom0) = {}) =>
    /\ cd.result.dom0_has_unreachable_ids =>
         MissingIds(cd.frontier, cd.dom1_set) \ cd.additional_ids_set # {}
    /\ cd.result.dom1_has_unreachable_ids =>
         MissingIds(Range(cd.dom1), cd.frontier) \ cd.additional_ids_set # {}

----------------------------------------------------------------------------
(* FusionGuard *)

\* the containers of the thread
Fusions == {"fusionA", "fusionB"}

\* deepest nesting of guard scopes
MaxScopes == 3

\* the variant of the constructor that remembers the new container
FusionGuardCtor_prevIsNew(g, f) ==
  [g EXCEPT !.scopes = Append(@, [prev_fusion_ |-> f]),
            !.active_fusion_ = f]

\* FusionGuard::FusionGuard(Fusion*)
FusionGuardCtor(g, f) ==
  [g EXCEPT !.scopes = Append(@, [prev_fusion_ |-> g.active_fusion_]),
            !.active_fusion_ = f]

\* FusionGuard::~FusionGuard() of the innermost guard
FusionGuardDtor(g) ==
  [g EXCEPT !.active_fusion_ = g.scopes[Len(g.scopes)].prev_fusion_,
            !.scopes = SubSeq(@, 1, Len(@) - 1)]

getCurFusion(g) == g.active_fusion_

setCurFusion(g, f) == [g EXCEPT !.active_fusion_ = f]

\* a scope is entered: a guard is constructed
GuardEnter ==
  /\ Len(guards.scopes) < MaxScopes
  /\ \E f \in Fusions \cup {NULL} :
       guards' = [FusionGuardCtor(guards, f) EXCEPT
                    !.entered = Append(@, [cur |-> getCurFusion(guards), set |-> FALSE]),
                    !.outer = IF guards.scopes = <<>> THEN getCurFusion(guards) ELSE @,
                    !.op = "enter"]
  /\ UNCHANGED <<fusion, last, steps, cc, cd, ids, rd>>

\* the innermost scope is left, by a return or by an exception: its guard
\* is destroyed
GuardExit ==
  /\ guards.scopes # <<>>
  /\ \E path \in {"return", "throw"} :
       guards' = [FusionGuardDtor(guards) EXCEPT
                    !.entered = SubSeq(@, 1, Len(@) - 1),
                    !.released = guards.entered[Len(guards.entered)].cur,
                    !.released_set = guards.entered[Len(guards.entered)].set,
                    !.op = path]
  /\ UNCHANGED <<fusion, last, steps, cc, cd, ids, rd>>

SetCurFusion ==
  /\ \E f \in Fusions \cup {NULL} :
       guards' = [setCurFusion(guards, f) EXCEPT
                    !.entered = IF @ = <<>> THEN @
                                ELSE [@ EXCEPT ![Len(@)].set = TRUE],
                    !.op = "set"]
  /\ UNCHANGED <<fusion, last, steps, cc, cd, ids, rd>>

InitGuard ==
  /\ fusion = NewFusion(TRUE)
  /\ last = NoCall(fusion)
  /\ steps = 0
  /\ cc = Idle
  /\ cd = Idle
  /\ rd = Idle
  /\ ids = NoIds
  /\ guards = NoGuards

NextGuard ==
  \/ GuardEnter
  \/ GuardExit
  \/ SetCurFusion

SpecGuard == InitGuard /\ [][NextGuard]_vars

----------------------------------------------------------------------------
(* Claims about FusionGuard (checked under SpecGuard) *)

GuardReleased == guards.op \in {"return", "throw"}

\* C29: when a guard is released, by a return or by an exception, the
\* current container is the one that was current when the guard was
\* constructed, whatever setCurFusion did inside the scope; when the last
\* guard is released it is the one that was current before the outermost
\* guard.
C29_GuardRestoresCurrent ==
  GuardReleased =>
    /\ getCurFusion(guards) = guards.released
    /\ guards.scopes = <<>> => getCurFusion(guards) = guards.outer

\* an exception left a nested scope in which setCurFusion was called
C29_Witness ==
  /\ guards.op = "throw"
  /\ guards.released_set
  /\ Len(guards.scopes) >= 1
  /\ guards.released # NULL
  /\ guards.released # guards.scopes[Len(guards.scopes)].prev_fusion_

----------------------------------------------------------------------------
(* ir_utils::producerValsOf, consumerValsOf, siblingValsOf *)

\* VectorOfUniqueEntries: each entry once, in the order of first insertion
uniqueEntries(vec) ==
  LET F[i \in 0..Len(vec)] ==
        IF i = 0 THEN <<>>
        ELSE IF InSeq(vec[i], F[i-1]) THEN F[i-1] ELSE Append(F[i-1], vec[i])
  IN  F[Len(vec)]

\* Val::uses(): the use lists of a tensor are recomputed first when they
\* are not valid
uses(s, val) ==
  With(IF vtype(val) = "TensorView" /\ ~s.all_tv_uses_valid_ THEN resetTvUses(s) ELSE s,
       LAMBDA s1 : Result(s1, s1.uses_[val], FALSE))

producerValsOf(s, val) ==
  IF definition(s, val) = NullExpr THEN Result(s, <<>>, FALSE)
  ELSE Result(s, uniqueEntries(definition(s, val).ins), FALSE)

\* the variant of consumerValsOf that returns the outputs as collected
consumerValsOf_noUnique(s, val) ==
  With(uses(s, val),
       LAMBDA u : IF u.s.err THEN Result(u.s, <<>>, FALSE)
                  ELSE Result(u.s, consumersOf(u.s, val), FALSE))

consumerValsOf(s, val) ==
  With(uses(s, val),
       LAMBDA u : IF u.s.err THEN Result(u.s, <<>>, FALSE)
                  ELSE Result(u.s, uniqueEntries(consumersOf(u.s, val)), FALSE))

siblingValsOf(s, val) ==
  IF definition(s, val) = NullExpr THEN Result(s, <<>>, FALSE)
  ELSE Result(s, SelectSeq(definition(s, val).outs, LAMBDA sibling_val : sibling_val # val), FALSE)

\* the loop of producerValsOf(const std::vector<Val*>&)
RECURSIVE allProducerVals(_, _, _, _)
allProducerVals(s, vals, i, acc) ==
  IF i > Len(vals) THEN Result(s, acc, FALSE)
  ELSE With(producerValsOf(s, vals[i]),
            LAMBDA r : allProducerVals(r.s, vals, i + 1, acc \o r.ret))

producerValsOfVals(s, vals) ==
  With(allProducerVals(s, vals, 1, <<>>),
       LAMBDA all : Result(all.s, uniqueEntries(all.ret), FALSE))

\* the loop of consumerValsOf(const std::vector<Val*>&)
RECURSIVE allConsumerVals(_, _, _, _)
allConsumerVals(s, vals, i, acc) ==
  IF i > Len(vals) \/ s.err THEN Result(s, acc, FALSE)
  ELSE With(consumerValsOf(s, vals[i]),
            LAMBDA r : allConsumerVals(r.s, vals, i + 1, acc \o r.ret))

consumerValsOfVals(s, vals) ==
  With(allConsumerVals(s, vals, 1, <<>>),
       LAMBDA all : Result(all.s, uniqueEntries(all.ret), FALSE))

----------------------------------------------------------------------------
(* The queries under a caller that builds a fusion *)

\* longest vector of values passed to a query
MaxQuery == 2

ProducerValsOf ==
  \E v \in Live : CallRet("producerValsOf", <<v>>, producerValsOf(fusion, v))

ConsumerValsOf ==
  \E v \in Live : CallRet("consumerValsOf", <<v>>, consumerValsOf(fusion, v))

SiblingValsOf ==
  \E v \in Live : CallRet("siblingValsOf", <<v>>, siblingValsOf(fusion, v))

ProducerValsOfVals ==
  \E vals \in SeqsUpTo(Live, MaxQuery) :
    CallRet("producerValsOfVals", <<vals>>, producerValsOfVals(fusion, vals))

ConsumerValsOfVals ==
  \E vals \in SeqsUpTo(Live, MaxQuery) :
    CallRet("consumerValsOfVals", <<vals>>, consumerValsOfVals(fusion, vals))

\* tv2 = tv1 * tv1: an expression that reads one value twice
e_mul == E("BinaryOp", <<"tv1", "tv1">>, <<"tv2">>)

RegisterMul == Call("registerExpr", <<e_mul>>, registerExpr(fusion, e_mul))

NextQuery ==
  \/ RegisterExpr
  \/ RegisterMul
  \/ AddOutput
  \/ ProducerValsOf
  \/ ConsumerValsOf
  \/ SiblingValsOf
  \/ ProducerValsOfVals
  \/ ConsumerValsOfVals

SpecQuery == InitUses /\ [][NextQuery]_vars

----------------------------------------------------------------------------
(* Claims about the neighbour queries (checked under SpecQuery) *)

SingleQueries == {"producerValsOf", "consumerValsOf", "siblingValsOf"}
MultiQueries == {"producerValsOfVals", "consumerValsOfVals"}

Queried == last.op \in SingleQueries \cup MultiQueries /\ last.ok

\* ret holds each element of vec once, ordered by first position in vec
FirstSeenOrder(ret, vec) ==
  /\ NoDuplicates(ret)
  /\ Range(ret) = Range(vec)
  /\ \A i, j \in DOMAIN ret :
       i < j => \E k \in DOMAIN vec :
                  /\ vec[k] = ret[i]
                  /\ \A m \in 1..k : vec[m] # ret[j]

\* the inputs of val's definition, none for a value without definition
ProducerList(val) ==
  IF definition(fusion, val) = NullExpr THEN <<>> ELSE definition(fusion, val).ins

\* the outputs of the expressions on val's use list, in the list's order
ConsumerList(val) == consumersOf(fusion, val)

RECURSIVE ConcatOver(_, _, _)
ConcatOver(List(_), vals, i) ==
  IF i > Len(vals) THEN <<>> ELSE List(vals[i]) \o ConcatOver(List, vals, i + 1)

SingleProducers(val) == producerValsOf(fusion, val).ret
SingleConsumers(val) == consumerValsOf(fusion, val).ret

NeighboursRight ==
  /\ last.op = "producerValsOf" => FirstSeenOrder(last.ret, ProducerList(last.args[1]))
  /\ last.op = "consumerValsOf" => FirstSeenOrder(last.ret, ConsumerList(last.args[1]))
  /\ last.op = "producerValsOfVals" =>
       FirstSeenOrder(last.ret, ConcatOver(SingleProducers, last.args[1], 1))
  /\ last.op = "consumerValsOfVals" =>
       FirstSeenOrder(last.ret, ConcatOver(SingleConsumers, last.args[1], 1))
  /\ last.op = "siblingValsOf" =>
       /\ ~InSeq(last.args[1], last.ret)
       /\ last.ret = IF definition(fusion, last.args[1]) = NullExpr THEN <<>>
                     ELSE SelectSeq(definition(fusion, last.args[1]).outs,
                                    LAMBDA o : o # last.args[1])

\* the tensors a query asked the use lists of
AskedTensor ==
  CASE last.op = "consumerValsOf" -> vtype(last.args[1]) = "TensorView"
    [] last.op = "consumerValsOfVals" ->
         \E v \in Range(last.args[1]) : vtype(v) = "TensorView"
    [] OTHER -> FALSE

Recomputed == AskedTensor /\ ~last.pre.all_tv_uses_valid_

\* C30 as stated: producerValsOf, consumerValsOf and their multi-value
\* forms return each neighbour once in first-seen order (the multi-value
\* result being the deduplicated union of the single-value results),
\* siblingValsOf(v) returns the other outputs of v's definition without v,
\* and no query changes a definition, use list, input or output list or
\* flag.
C30_AsStated == Queried => NeighboursRight /\ fusion = last.pre

\* C30: the results are as stated; a query changes nothing except that
\* consumerValsOf, asked about a tensor while the use lists are not valid,
\* leaves the container as resetTvUses does (use lists recomputed, flag
\* set).
C30_QueriesRecomputeUsesOnly ==
  Queried => /\ NeighboursRight
             /\ ~Recomputed => fusion = last.pre
             /\ Recomputed => fusion = resetTvUses(last.pre)

\* consumerValsOf of a tensor on a fusion whose use lists were not valid
\* returned a consumer and changed the use lists
C30_Witness ==
  /\ Queried /\ last.op = "consumerValsOf" /\ Recomputed
  /\ last.ret # <<>>
  /\ fusion.uses_ # last.pre.uses_

----------------------------------------------------------------------------
(* Fusion::isNoOp *)

\* The extents an axis can have: the constants 0 and 2, and a scalar that
\* is not a compile-time constant.
Extents == {[isConst |-> TRUE, value |-> 0], [isConst |-> TRUE, value |-> 2],
            [isConst |-> FALSE, value |-> 0]}

\* the axes of the tensors' domains
DomainAxes == {"i0", "i1"}

\* the domains a tensor may have been created with: no axis, one, or two
RootDomains == {<<>>, <<"i0">>, <<"i0", "i1">>}

\* TensorView::getMaybeRFactorDomain
getMaybeRFactorDomain(g, tv) == g.root_domain[tv]

\* TensorDomain::noReductions
noReductions(g, dom) == SelectSeq(dom, LAMBDA id : ~g.is_reduction[id])

\* the lambda of std::any_of in isNoOp
isZeroExtent(g, id) == g.extent[id].isConst /\ g.extent[id].value = 0

\* the variant of size_zero that asks every axis to be empty
size_zero_allOf(g, out_tv) ==
  \A id \in Range(noReductions(g, getMaybeRFactorDomain(g, out_tv))) : isZeroExtent(g, id)

size_zero(g, out_tv) ==
  \E id \in Range(noReductions(g, getMaybeRFactorDomain(g, out_tv))) : isZeroExtent(g, id)

\* the loop of isNoOp over filterByType<TensorView>(outputs())
RECURSIVE allOutputsEmpty(_, _, _)
allOutputsEmpty(s, g, i) ==
  IF i > Len(s.outputs_) THEN TRUE
  ELSE IF vtype(s.outputs_[i]) = "TensorView" /\ ~size_zero(g, s.outputs_[i]) THEN FALSE
  ELSE allOutputsEmpty(s, g, i + 1)

isNoOp(s, g) ==
  With(getExprs(s),
       LAMBDA all : IF all.s.err THEN Result(all.s, NULL, FALSE)
                    ELSE IF all.exprs = <<>> THEN Result(all.s, TRUE, FALSE)
                    ELSE Result(all.s, allOutputsEmpty(all.s, g, 1), FALSE))

IsNoOp == CallRet("isNoOp", <<>>, isNoOp(fusion, ids))

\* Tensors tv1 and tv2 have any domain over two axes of any extent, either
\* of which may be a reduction axis.
InitNoOp ==
  /\ \E ssa \in BOOLEAN : fusion = NewFusion(ssa)
  /\ \E ext \in [DomainAxes -> Extents], red \in [DomainAxes -> BOOLEAN],
        d1 \in RootDomains, d2 \in RootDomains :
       ids = [iter_type |-> EmptyMap, exprs |-> {}, extent |-> ext, is_reduction |-> red,
              root_domain |-> [v \in {"tv0", "tv1", "tv2"} |->
                                 IF v = "tv1" THEN d1 ELSE IF v = "tv2" THEN d2 ELSE <<"i0">>]]
  /\ last = NoCall(fusion)
  /\ steps = 0
  /\ cc = Idle
  /\ cd = Idle
  /\ rd = Idle
  /\ guards = NoGuards

NextNoOp ==
  \/ RegisterExpr
  \/ AddOutput
  \/ IsNoOp

SpecNoOp == InitNoOp /\ [][NextNoOp]_vars

\* Claims about isNoOp (checked under SpecNoOp)

NoOpAnswered == last.op = "isNoOp" /\ last.ok

TensorOutputs == {o \in Range(fusion.outputs_) : vtype(o) = "TensorView"}

\* the non-reduction axes of a tensor
NonReductionAxes(tv) == {id \in Range(ids.root_domain[tv]) : ~ids.is_reduction[id]}

ConstantZero(id) == ids.extent[id] = [isConst |-> TRUE, value |-> 0]

NothingToCompute == LiveExprs(fusion) = {}

\* C31 as stated: isNoOp returns true exactly when no expression is
\* reachable from the outputs or every non-reduction extent of every tensor
\* output is a compile-time-constant zero, and false when some tensor output
\* has a non-reduction extent that is not.
C31_AsStated ==
  NoOpAnswered =>
    (last.ret <=> \/ NothingToCompute
                  \/ \A o \in TensorOutputs : \A id \in NonReductionAxes(o) : ConstantZero(id))

\* C31: isNoOp returns true exactly when no expression is reachable from
\* the outputs or every tensor output has a non-reduction axis whose extent
\* is a compile-time-constant zero.
C31_NoOpWhenEveryOutputEmpty ==
  NoOpAnswered =>
    (last.ret <=> \/ NothingToCompute
                  \/ \A o \in TensorOutputs : \E id \in NonReductionAxes(o) : ConstantZero(id))

\* isNoOp returned true for a fusion with an expression whose tensor output
\* has one empty axis and one that is not
C31_Witness ==
  /\ NoOpAnswered /\ last.ret /\ ~NothingToCompute
  /\ \E o \in TensorOutputs : \E id \in NonReductionAxes(o) : ~ConstantZero(id)

----------------------------------------------------------------------------
(* Claims about the lists and flags of inputs and outputs *)

\* C32: after any sequence of addOutput, removeOutput, replaceOutput and
\* aliasOutputToInput a value is in the output list if and only if its
\* is-fusion-output flag is set, and no value is in the output list twice
\* (checked under SpecAlias).
C32_OutputFlagMatchesList ==
  /\ \A v \in fusion.vals_ : InSeq(v, fusion.outputs_) <=> fusion.is_fusion_output_[v]
  /\ NoDuplicates(fusion.outputs_)

\* C33: after any sequence of addInput and removeInput calls, failed and
\* no-op ones included, a value is in the input list if and only if its
\* is-fusion-input flag is set, and no value is in the input list twice
\* (checked under SpecIO).
C33_InputFlagMatchesList ==
  /\ \A v \in fusion.vals_ : InSeq(v, fusion.inputs_) <=> fusion.is_fusion_input_[v]
  /\ NoDuplicates(fusion.inputs_)

\* addInput of a value that is an input already has failed, beside another
\* input
C33_Witness ==
  /\ last.op = "addInput" /\ ~last.ok
  /\ InSeq(last.args[1], fusion.inputs_)
  /\ Len(fusion.inputs_) > 1

----------------------------------------------------------------------------
(* The use-list cache under every operation that edits a built fusion *)

NextCache ==
  \/ AddInput
  \/ AddOutput
  \/ RemoveInput
  \/ RemoveOutput
  \/ ReplaceOutput
  \/ RegisterExpr
  \/ RemoveExpr
  \/ RemoveVal
  \/ ResetTvUses

SpecCache == InitBuilt /\ [][NextCache]_vars

\* the expressions reachable from the declared outputs that read tv
LiveUses(s, tv) == {e \in LiveExprs(s) : InSeq(tv, e.ins)}

LiveTensors(s) == {v \in s.vals_ : vtype(v) = "TensorView"}

Coherent(s) == \A tv \in LiveTensors(s) : Range(s.uses_[tv]) = LiveUses(s, tv)

\* C34: whenever the use-lists-valid flag is true, the use list of each
\* tensor is the set of expressions reachable from the declared outputs
\* that read it, and every operation that changes that set for a tensor
\* leaves the flag false.
C34_UseListsCoherent ==
  /\ fusion.all_tv_uses_valid_ => Coherent(fusion)
  /\ last.ok /\ (\E tv \in LiveTensors(fusion) \cap LiveTensors(last.pre) :
                   LiveUses(fusion, tv) # LiveUses(last.pre, tv))
       => ~fusion.all_tv_uses_valid_

----------------------------------------------------------------------------
(* Single assignment under registerExpr, removeExpr and removeVal *)

NextDefs ==
  \/ RegisterExpr
  \/ RemoveExpr
  \/ RemoveVal

SpecDefs == InitFusion /\ [][NextDefs]_vars

\* C35: in single-assignment mode, after any sequence of registerExpr,
\* removeExpr and removeVal, every output of every registered expression is
\* defined by that expression, so no value is an output of two registered
\* expressions, and every non-null definition is a registered expression.
C35_SingleAssignment ==
  fusion.is_ssa =>
    /\ \A e \in fusion.exprs_ : \A o \in Range(e.outs) : definition(fusion, o) = e
    /\ \A e1, e2 \in fusion.exprs_ :
         Range(e1.outs) \cap Range(e2.outs) # {} => e1 = e2
    /\ \A v \in Vals : definition(fusion, v) # NullExpr => definition(fusion, v) \in fusion.exprs_

\* a registration that replaced the definition of its output, in
\* single-assignment mode
C35_Witness ==
  /\ fusion.is_ssa /\ last.op = "registerExpr" /\ last.ok
  /\ \E o \in Range(last.args[1].outs) :
       /\ definition(last.pre, o) \notin {NullExpr, last.args[1]}
       /\ definition(fusion, o) = last.args[1]

----------------------------------------------------------------------------
(* Claims about the iteration order of the replacement map (checked under
   SpecRV) *)

\* the output list replaceValue leaves when the map yields its entries in
\* the given order, run on the container the last call started from
OutputsUnder(order) == replaceValue(last.pre, ReplacementMap, order).outputs_

\* C36: the output list whole-graph replaceValue produces is the same for
\* every order in which the final loop can meet the entries of the
\* replacement map, chained maps (a -> b, b -> c) included.
C36_OutputsIndependentOfOrder ==
  ReplacedValue =>
    \A order \in Orders(DOMAIN ReplacementMap) : OutputsUnder(order) = fusion.outputs_

----------------------------------------------------------------------------
(* Claims about the alias map (checked under SpecAlias) *)

\* C37: after any sequence of addOutput, removeOutput, replaceOutput and
\* aliasOutputToInput, every key of the alias map is in the output list.
C37_AliasKeysAreOutputs ==
  \A k \in DOMAIN fusion.io_alias_ : InSeq(k, fusion.outputs_)

\* o has an alias entry with the hide flag set in container s
Hidden(s, o) == o \in DOMAIN s.io_alias_ /\ s.io_alias_[o].hide_output

\* a later aliasOutputToInput on a hidden output keeps the hide flag
HiddenStaysHidden ==
  AliasDone /\ Hidden(last.pre, AliasedOutput) => Hidden(fusion, AliasedOutput)

\* replaceOutput carries the entry of a hidden output to the replacement
HiddenIsCarried ==
  ReplacedOutput /\ Hidden(last.pre, OldOut) =>
    /\ NewOut \in DOMAIN fusion.io_alias_
    /\ fusion.io_alias_[NewOut] = last.pre.io_alias_[OldOut]

\* C38: once aliasOutputToInput has recorded an output as hidden, the hide
\* flag of its alias entry stays set under any later aliasOutputToInput on
\* the same output and is carried unchanged to the replacement by
\* replaceOutput.
C38_HideFlagIsKept == HiddenStaysHidden /\ HiddenIsCarried

----------------------------------------------------------------------------
(* ir_utils::isRecursivelyDefined *)

\* the locals after vals_to_visit.push_back(val)
isRecursivelyDefinedEntry(val) ==
  [pc |-> "loop", val |-> val, vals_to_visit |-> <<val>>, visited_vals |-> {},
   ret |-> FALSE, iterations |-> 0]

\* the variant of pushInputs that pushes an input whether or not it was
\* visited
RECURSIVE pushInputs_noVisitedCheck(_, _, _)
pushInputs_noVisitedCheck(r, inputs, i) ==
  IF i > Len(inputs) THEN r
  ELSE IF inputs[i] = r.val THEN [r EXCEPT !.pc = "done", !.ret = TRUE]
  ELSE pushInputs_noVisitedCheck([r EXCEPT !.vals_to_visit = Append(@, inputs[i])],
                                 inputs, i + 1)

\* for (const auto inp : v_def->inputs())
RECURSIVE pushInputs(_, _, _)
pushInputs(r, inputs, i) ==
  IF i > Len(inputs) THEN r
  ELSE IF inputs[i] = r.val THEN [r EXCEPT !.pc = "done", !.ret = TRUE]
  ELSE pushInputs(IF inputs[i] \notin r.visited_vals
                  THEN [r EXCEPT !.vals_to_visit = Append(@, inputs[i])] ELSE r,
                  inputs, i + 1)

\* one iteration of the while loop
visitFront(s, r) ==
  LET v == Head(r.vals_to_visit)
      r1 == [r EXCEPT !.vals_to_visit = Tail(@), !.visited_vals = @ \cup {v},
                      !.iterations = @ + 1]
      v_def == definition(s, v)
  IN  IF v_def = NullExpr THEN r1 ELSE pushInputs(r1, v_def.ins, 1)

\* longest run of the loop the model follows
MaxIterations == 16

IsRecursivelyDefined ==
  /\ rd.pc = "idle"
  /\ \E val \in CycleVals : rd' = isRecursivelyDefinedEntry(val)
  /\ UNCHANGED <<fusion, last, steps, cc, cd, ids, guards>>

RD_VisitFront ==
  /\ rd.pc = "loop" /\ rd.vals_to_visit # <<>>
  /\ rd.iterations < MaxIterations
  /\ rd' = visitFront(fusion, rd)
  /\ UNCHANGED <<fusion, last, steps, cc, cd, ids, guards>>

RD_ReturnFalse ==
  /\ rd.pc = "loop" /\ rd.vals_to_visit = <<>>
  /\ rd' = [rd EXCEPT !.pc = "done", !.ret = FALSE]
  /\ UNCHANGED <<fusion, last, steps, cc, cd, ids, guards>>

\* A single-assignment container in which the chosen definitions were
\* registered; a tensor may have been declared an input afterwards.
InitRD ==
  /\ \E d0 \in DefChoices("tv0"), d1 \in DefChoices("tv1"), d2 \in DefChoices("tv2"),
        ins \in SeqsUpTo(CycleVals, 1) :
       fusion = addInputs(registerAll(NewFusion(TRUE), <<d0, d1, d2>>, 1), ins, 1)
  /\ last = NoCall(fusion)
  /\ steps = 0
  /\ cc = Idle
  /\ cd = Idle
  /\ rd = Idle
  /\ guards = NoGuards
  /\ ids = NoIds

NextRD ==
  \/ IsRecursivelyDefined
  \/ RD_VisitFront
  \/ RD_ReturnFalse

SpecRD == InitRD /\ [][NextRD]_vars

\* the loop runs while it can
SpecRDLive == SpecRD /\ WF_vars(RD_VisitFront) /\ WF_vars(RD_ReturnFalse)

\* Claims about isRecursivelyDefined (checked under SpecRDLive)

\* the values reached from W along definition -> input edges
RECURSIVE InputClosure(_, _)
InputClosure(s, W) ==
  LET more == W \cup UNION {Range(definition(s, v).ins) :
                             v \in {w \in W : definition(s, w) # NullExpr}}
  IN  IF more = W THEN W ELSE InputClosure(s, more)

\* val is an input, directly or through a chain, of its own definition
DefinedByItself(s, val) ==
  /\ definition(s, val) # NullExpr
  /\ val \in InputClosure(s, Range(definition(s, val).ins))

\* some value other than val, met on the way, is defined by itself
CycleBeside(s, val) ==
  \E v \in InputClosure(s, {val}) \ {val} : DefinedByItself(s, v)

Answered == rd.pc = "done"

\* C39: isRecursivelyDefined(val) returns on every definition graph, cycles
\* that do not pass through val included, and returns true exactly when val
\* is reachable from itself along definition -> input edges.
C39_RecursiveDefinitionDecided ==
  /\ [](rd.pc = "loop" => <>Answered)
  /\ [](Answered => (rd.ret <=> DefinedByItself(fusion, rd.val)))

\* a call that returned false on a graph with a cycle beside val
C39_Witness ==
  /\ Answered /\ ~rd.ret
  /\ CycleBeside(fusion, rd.val)

----------------------------------------------------------------------------
(* ir_utils::normalizeOld2New *)

\* largest number of dimensions, and largest map passed
MaxDims == 3
MaxEntries == 2

\* the lambda of the first std::transform: a negative position gets ndims
\* added to it
adjust(pos, ndims) == IF pos < 0 THEN pos + ndims ELSE pos

\* std::inserter into the unordered_map old2new, entry by entry in the
\* order old2new_in yields them: an entry whose adjusted key is present
\* already is not inserted
RECURSIVE adjustAll(_, _, _, _, _)
adjustAll(old2new_in, order, ndims, k, old2new) ==
  IF k > Len(order) THEN old2new
  ELSE LET first == adjust(order[k], ndims)
           second == adjust(old2new_in[order[k]], ndims)
       IN  adjustAll(old2new_in, order, ndims, k + 1,
                     IF first \in DOMAIN old2new THEN old2new
                     ELSE MapPut(old2new, first, second))

\* the lambda of std::none_of
outOfRange(first, second, ndims) ==
  first < 0 \/ first >= ndims \/ second < 0 \/ second >= ndims

\* old_pos_set.size() == old2new.size() && new_pos_set.size() == old2new.size()
noDuplicates(old2new) ==
  LET old_pos_set == DOMAIN old2new
      new_pos_set == {old2new[o] : o \in DOMAIN old2new}
  IN  /\ Cardinality(old_pos_set) = Cardinality(DOMAIN old2new)
      /\ Cardinality(new_pos_set) = Cardinality(DOMAIN old2new)

\* the k-th smallest element of a set of integers (k from 1)
RECURSIVE nth(_, _)
nth(S, k) ==
  LET least == CHOOSE x \in S : \A y \in S : x <= y
  IN  IF k = 1 THEN least ELSE nth(S \ {least}, k - 1)

\* new2old after the loop over old2new, -1 where nothing was specified
specified(old2new, ndims) ==
  [new_pos \in 0..(ndims - 1) |->
     IF \E o \in DOMAIN old2new : old2new[o] = new_pos
     THEN CHOOSE o \in DOMAIN old2new : old2new[o] = new_pos
     ELSE -1]

\* the last std::transform: each -1 takes the next position left, in
\* increasing order
fillLeft(new2old, ndims) ==
  LET old_positions == {new2old[n] : n \in DOMAIN new2old} \ {-1}
      positions_left == (0..(ndims - 1)) \ old_positions
      empties(n) == Cardinality({m \in 0..n : new2old[m] = -1})
  IN  [n \in DOMAIN new2old |->
         IF new2old[n] = -1 THEN nth(positions_left, empties(n)) ELSE new2old[n]]

\* `order` lists the keys of old2new_in in the iteration order of the
\* unordered_map; err stands for a failed NVF_CHECK
normalizeOld2New(old2new_in, order, ndims) ==
  LET old2new == adjustAll(old2new_in, order, ndims, 1, EmptyMap)
  IN  IF \E o \in DOMAIN old2new : outOfRange(o, old2new[o], ndims)
      THEN [err |-> TRUE, ret |-> <<>>]
      ELSE IF ~noDuplicates(old2new) THEN [err |-> TRUE, ret |-> <<>>]
      ELSE [err |-> FALSE, ret |-> fillLeft(specified(old2new, ndims), ndims)]

Positions == (0 - MaxDims)..MaxDims

Old2NewMaps ==
  UNION {[D -> Positions] : D \in {X \in SUBSET Positions : Cardinality(X) <= MaxEntries}}

\* one call on a map, a number of dimensions and an iteration order
NormalizeOld2New ==
  /\ steps = 0
  /\ \E ndims \in 0..MaxDims, old2new_in \in Old2NewMaps :
       \E order \in Orders(DOMAIN old2new_in) :
         \E r \in {normalizeOld2New(old2new_in, order, ndims)} :
           last' = [op |-> "normalizeOld2New", args |-> <<old2new_in, ndims, order>>,
                    ok |-> ~r.err, pre |-> fusion, ret |-> r.ret]
  /\ steps' = 1
  /\ UNCHANGED <<fusion, cc, cd, ids, guards, rd>>

SpecReorder == InitFusion /\ [][NormalizeOld2New]_vars

\* Claims about normalizeOld2New (checked under SpecReorder)

Normalized == last.op = "normalizeOld2New"
MapIn == last.args[1]
NDims == last.args[2]
New2Old == last.ret

Wrapped(pos) == IF pos < 0 THEN pos + NDims ELSE pos

InRange == \A o \in DOMAIN MapIn :
             /\ Wrapped(o) \in 0..(NDims - 1)
             /\ Wrapped(MapIn[o]) \in 0..(NDims - 1)

DuplicateFree ==
  \A a, b \in DOMAIN MapIn :
    a # b => Wrapped(a) # Wrapped(b) /\ Wrapped(MapIn[a]) # Wrapped(MapIn[b])

\* the slots no pair names, and the old positions no pair names
FreeSlots == (0..(NDims - 1)) \ {Wrapped(MapIn[o]) : o \in DOMAIN MapIn}
FreeOlds == (0..(NDims - 1)) \ {Wrapped(o) : o \in DOMAIN MapIn}

IsNormalized ==
  /\ DOMAIN New2Old = 0..(NDims - 1)
  /\ {New2Old[n] : n \in DOMAIN New2Old} = 0..(NDims - 1)
  /\ \A o \in DOMAIN MapIn : New2Old[Wrapped(MapIn[o])] = Wrapped(o)
  /\ \A n \in FreeSlots : New2Old[n] \in FreeOlds
  /\ \A n, m \in FreeSlots : n < m => New2Old[n] < New2Old[m]

\* C40: for a map whose wrapped positions are in range and duplicate-free
\* on both sides normalizeOld2New returns the permutation that puts every
\* specified old position at its new position and fills the other slots
\* with the other old positions in increasing order; a map with a position
\* out of range or a duplicate old or new position fails.
C40_NormalizeOld2New ==
  Normalized =>
    /\ InRange /\ DuplicateFree => last.ok /\ IsNormalized
    /\ ~(InRange /\ DuplicateFree) => ~last.ok

====
